---- MODULE Spec2Model ----
(***************************************************************************)
(* A model of the remote-vibe core of the vibely repository:               *)
(*   - the SessionManager registry (session/index.ts),                     *)
(*   - the adapters' stream protocol (adapters/base.ts, opencode.ts,       *)
(*     cursor.ts, aider.ts) and cancel,                                    *)
(*   - the adapters' execute (both BaseAdapter variants and the            *)
(*     ClaudeCodeAdapter override).                                        *)
(*   - the request analyzer (analyzer/index.ts: analyzeRequest),           *)
(*   - the handler of POST /api/v1/execute, as far as it uses the registry.*)
(* Every async method is cut at its awaits: one action per run-to-await    *)
(* segment, as the single-threaded JavaScript event loop runs it.          *)
(***************************************************************************)
EXTENDS Integers, Sequences, FiniteSets, TLC

\* ------------------------------------------------------------------ bounds
MaxTime == 2        \* the clock Date.now() takes the values 0..MaxTime
MaxMsgs == 2        \* messages held by the registry, over all sessions
MaxAge == 1         \* cleanup's olderThanMs ranges over 0..MaxAge
MaxChunks == 2      \* chunks a backend delivers before it ends
MaxLines == 2       \* lines per HTTP chunk

\* ------------------------------------------------------------------ inputs
Ids == {"s1", "s2"}
Tools == {"claude-code", "opencode"}
Roles == {"user", "assistant"}
Contents == {"p"}
TerminalStatus == {"completed", "failed"}

\* endTime?: Date  -- the optional field when it is absent
Undefined == -1

VARIABLES
    \* SessionManager
    sessions,     \* the Map<string, Session>, as a function on its keys
    order,        \* the Map's insertion order (the order `for..of` visits)
    now,          \* Date.now()
    lastCall,     \* the call made at this instant and its outcome
    callLog,      \* per stored session, the addMessage calls made on it, in order
    sweep,        \* the latest cleanup call, while no session was completed since
    \* adapter.stream / adapter.cancel
    sAdapter,     \* the adapter stream() runs on
    sRequested,   \* request.options.sessionId of the stream call
    sSessionId,   \* the session id of the stream
    spc,          \* position of the stream() call
    events,       \* events delivered to the sink, in delivery order
    cancelled,    \* cancel(sessionId) was called and returned during the run
    nChunks,      \* chunks read so far
    \* adapter.execute
    xAdapter,     \* the adapter execute() runs on
    xRequested,   \* request.options.sessionId of that call
    xVariant,     \* which BaseAdapter.execute it inherits ("pipe" or "file")
    xpc,          \* position of the execute() call
    xResult,      \* the ToolResult being built, returned when xpc = "returned"
    hung,         \* the backend process neither exits nor closes its output
    xProc,        \* what the backend process wrote and its exit code, so far
    \* POST /api/v1/execute
    hpc,          \* per request handler, its position
    hsid,         \* per request handler, the id of the session it created
    hOutcome,     \* per request handler, how its adapter call ended
    \* analyzeRequest
    prompt,       \* the input of the analyzeRequest call
    analysis,     \* the RequestAnalysis it returned
    selArgs,      \* the arguments of a selectTool call
    selection,    \* what selectTool returned
    \* adapter.isAvailable
    pAdapter,     \* the adapter isAvailable() runs on
    ppc,          \* position of the isAvailable() call
    pRet,         \* what it returned, when ppc = "returned"
    pStalled,     \* the probe never completes on its own
    pElapsed,     \* seconds since the probe was started
    \* the HTTP backend
    xResponse,    \* the response executeViaApi's fetch resolved with
    sResponse,    \* the response streamViaApi's fetch resolved with
    \* SessionManager.create with its ids as text
    registry,     \* the sessions map, keyed by the text of the id
    cArgs,        \* the arguments of the latest create call
    cRet,         \* the session that call returned
    \* the editor extension's symbol completion
    eLine,        \* the text of the document line
    eChar,        \* position.character, the cursor's offset in the line
    epc,          \* "idle", "typed", "offered", "none" or "accepted"
    eSymbol,      \* the symbol whose completion item is offered
    eItem,        \* the completion item: insertText and range
    eResult,      \* the line after the item was accepted
    \* streamViaApi reading a response body, as text
    bLines,       \* the payloads of the body's `data: ` lines, in order
    bRest,        \* the part of the body not yet delivered by reader.read()
    bReads,       \* chunks read so far
    bEvents,      \* events delivered to the sink
    bpc,          \* "idle", "readBody" or "done"
    \* overlapping ClaudeCodeAdapter.execute calls
    cwd,          \* process.cwd(), shared by every call of the process
    kpc,          \* per call: "idle", "awaiting", "returned" or "raised"
    originalCwd,  \* per call: its local `originalCwd`
    \* the persistent execution log
    logFiles,     \* the files of the logs directory: path -> content
    attempts,     \* the execute attempts whose log write succeeded, in order
    logNow,       \* Date.now() of the logging process, in milliseconds
    \* FileCache of the editor extension and the file completions using it
    cache,        \* FileCache.cache: workspace path -> file list, NoFiles when absent
    cacheValid,   \* FileCache.cacheValid
    setSince,     \* history: workspaces set() was called for since the latest invalidate()
    served,       \* history: the latest get(): workspace, list returned, was it set since
    fpc,          \* per completion request: "idle", "finding" or "done"
    fWorkspace    \* per completion request: workspaceFolder.uri.fsPath

sessionVars == <<sessions, order, now, lastCall, callLog, sweep>>
streamVars == <<sAdapter, sRequested, sSessionId, spc, events, cancelled, nChunks>>
execVars == <<xAdapter, xRequested, xVariant, xpc, xResult, hung, xProc>>
apiVars == <<hpc, hsid, hOutcome>>
analyzerVars == <<prompt, analysis, selArgs, selection>>
coreVars == <<sessionVars, streamVars, execVars, apiVars, analyzerVars>>
probeVars == <<pAdapter, ppc, pRet, pStalled, pElapsed>>
httpVars == <<xResponse, sResponse>>
createVars == <<registry, cArgs, cRet>>
editorVars == <<eLine, eChar, epc, eSymbol, eItem, eResult>>
bodyVars == <<bLines, bRest, bReads, bEvents, bpc>>
cwdVars == <<cwd, kpc, originalCwd>>
logVars == <<logFiles, attempts, logNow>>
cacheVars == <<cache, cacheValid, setSince, served, fpc, fWorkspace>>
moreVars == <<createVars, editorVars, bodyVars, cwdVars, logVars, cacheVars>>
extVars == <<probeVars, httpVars, moreVars>>
vars == <<sessions, order, now, lastCall, callLog, sweep,
          sAdapter, sRequested, sSessionId, spc, events, cancelled, nChunks,
          xAdapter, xRequested, xVariant, xpc, xResult, hung, xProc,
          hpc, hsid, hOutcome,
          prompt, analysis, selArgs, selection,
          pAdapter, ppc, pRet, pStalled, pElapsed,
          xResponse, sResponse,
          registry, cArgs, cRet,
          eLine, eChar, epc, eSymbol, eItem, eResult,
          bLines, bRest, bReads, bEvents, bpc,
          cwd, kpc, originalCwd,
          logFiles, attempts, logNow,
          cache, cacheValid, setSince, served, fpc, fWorkspace>>

\* ------------------------------------------------------------------ helpers
Last(s) == s[Len(s)]

Remove(f, k) == [x \in (DOMAIN f) \ {k} |-> f[x]]

Put(f, k, v) == [x \in (DOMAIN f) \cup {k} |-> IF x = k THEN v ELSE f[x]]

Restrict(f, S) == [x \in (DOMAIN f) \cap S |-> f[x]]

RECURSIVE SumOver(_, _)
SumOver(f, S) ==
    IF S = {} THEN 0
    ELSE LET x == CHOOSE y \in S : TRUE IN f[x] + SumOver(f, S \ {x})

\* messages held by the whole registry (the model's size bound)
TotalMsgs == SumOver([id \in DOMAIN sessions |-> Len(sessions[id].messages)],
                     DOMAIN sessions)

NoCall == [op |-> "none", id |-> "", arg |-> 0, threw |-> FALSE, ret |-> 0]

Call(op, id, arg, threw, ret) ==
    [op |-> op, id |-> id, arg |-> arg, threw |-> threw, ret |-> ret]

\* no cleanup call yet, or a session was completed since the latest one
NoSweep == [arg |-> Undefined, fresh |-> FALSE, calls |-> 0]

\* ================================================================ sessions
\* The Session record holds tool, messages, endTime and status; a Message
\* holds role and content.  startTime, metadata and the messages' timestamp
\* are written once and read by no operation, and are not modelled.

\* new Map<string, Session>()
SessionInit ==
    /\ sessions = <<>>
    /\ order = <<>>
    /\ now = 0
    /\ lastCall = NoCall
    /\ callLog = <<>>
    /\ sweep = NoSweep

\* create(tool, id?, metadata?) with the id supplied.  Map.set keeps the
\* position of a key that is already present.
create(tool, id) ==
    /\ sessions' = Put(sessions, id,
                       [tool |-> tool, messages |-> <<>>,
                        endTime |-> Undefined, status |-> "active"])
    /\ order' = IF id \in DOMAIN sessions THEN order ELSE Append(order, id)
    /\ lastCall' = Call("create", id, 0, FALSE, 0)
    /\ callLog' = Put(callLog, id, <<>>)
    /\ UNCHANGED now

\* generateId without its random part: the key may be one in use
generateIdInUse == Ids

\* create(tool) without an id: generateId() returns a fresh key
\* (`session-${Date.now()}-${random}`), here any key not in the registry.
generateId == Ids \ DOMAIN sessions

createGenerated(tool) ==
    \E id \in generateId : create(tool, id)

\* pushMessage with the message put in front (unshift for push)
unshiftMessage(messages, role, content) ==
    <<[role |-> role, content |-> content]>> \o messages

\* session.messages.push({role, content, timestamp})
pushMessage(messages, role, content) ==
    Append(messages, [role |-> role, content |-> content])

\* addMessage(sessionId, role, content)
addMessage(sessionId, role, content) ==
    IF sessionId \notin DOMAIN sessions
    THEN /\ lastCall' = Call("addMessage", sessionId, 0, TRUE, 0)
         /\ UNCHANGED <<sessions, order, now, callLog>>
    ELSE /\ TotalMsgs < MaxMsgs
         /\ sessions' = [sessions EXCEPT ![sessionId].messages =
                             pushMessage(@, role, content)]
         /\ lastCall' = Call("addMessage", sessionId, 0, FALSE, 0)
         /\ callLog' = [callLog EXCEPT ![sessionId] = Append(@, <<role, content>>)]
         /\ UNCHANGED <<order, now>>

\* complete that stores a finished session under an unknown id instead of
\* throwing
\* complete that sets the status and leaves the end time alone
completeStatusOnly(sessionId, status) ==
    IF sessionId \notin DOMAIN sessions
    THEN /\ lastCall' = Call("complete", sessionId, 0, TRUE, 0)
         /\ UNCHANGED <<sessions, order, now, callLog>>
    ELSE /\ sessions' = [sessions EXCEPT ![sessionId].status = status]
         /\ lastCall' = Call("complete", sessionId, 0, FALSE, 0)
         /\ UNCHANGED <<order, now, callLog>>

completeUpsert(sessionId, status) ==
    /\ sessions' = Put(sessions, sessionId,
                       [tool |-> "claude-code",
                        messages |-> IF sessionId \in DOMAIN sessions
                                     THEN sessions[sessionId].messages ELSE <<>>,
                        endTime |-> now, status |-> status])
    /\ order' = IF sessionId \in DOMAIN sessions THEN order ELSE Append(order, sessionId)
    /\ lastCall' = Call("complete", sessionId, 0, FALSE, 0)
    /\ callLog' = IF sessionId \in DOMAIN sessions THEN callLog
                  ELSE Put(callLog, sessionId, <<>>)
    /\ UNCHANGED now

\* complete(sessionId, status = "completed")
complete(sessionId, status) ==
    IF sessionId \notin DOMAIN sessions
    THEN /\ lastCall' = Call("complete", sessionId, 0, TRUE, 0)
         /\ UNCHANGED <<sessions, order, now, callLog>>
    ELSE /\ sessions' = [sessions EXCEPT ![sessionId].status = status,
                                         ![sessionId].endTime = now]
         /\ lastCall' = Call("complete", sessionId, 0, FALSE, 0)
         /\ UNCHANGED <<order, now, callLog>>

\* delete(sessionId): Map.delete, returns whether the key was present
delete(sessionId) ==
    /\ sessions' = Remove(sessions, sessionId)
    /\ order' = SelectSeq(order, LAMBDA k : k # sessionId)
    /\ lastCall' = Call("delete", sessionId, 0, FALSE,
                        IF sessionId \in DOMAIN sessions THEN 1 ELSE 0)
    /\ callLog' = Remove(callLog, sessionId)
    /\ UNCHANGED now

\* isExpired with `<=` for `<`
isExpiredInclusive(session, cutoff) ==
    /\ session.status # "active"
    /\ session.endTime # Undefined
    /\ session.endTime <= cutoff

\* cleanupLoop that leaves the loop at its first deletion
RECURSIVE cleanupLoopOnce(_, _, _, _)
cleanupLoopOnce(keys, reg, cutoff, count) ==
    IF keys = <<>>
    THEN [reg |-> reg, count |-> count]
    ELSE IF reg[Head(keys)].status # "active"
            /\ reg[Head(keys)].endTime # Undefined
            /\ reg[Head(keys)].endTime < cutoff
         THEN [reg |-> Remove(reg, Head(keys)), count |-> count + 1]
         ELSE cleanupLoopOnce(Tail(keys), reg, cutoff, count)

\* the test of cleanup's loop body
isExpired(session, cutoff) ==
    /\ session.status # "active"
    /\ session.endTime # Undefined
    /\ session.endTime < cutoff

\* cleanup's `for (const [id, session] of this.sessions)` loop: visits the
\* keys in insertion order, deleting the entry it is at and counting.
RECURSIVE cleanupLoop(_, _, _, _)
cleanupLoop(keys, reg, cutoff, count) ==
    IF keys = <<>>
    THEN [reg |-> reg, count |-> count]
    ELSE IF isExpired(reg[Head(keys)], cutoff)
         THEN cleanupLoop(Tail(keys), Remove(reg, Head(keys)), cutoff, count + 1)
         ELSE cleanupLoop(Tail(keys), reg, cutoff, count)

\* cleanup(olderThanMs = 3600000)
cleanup(olderThanMs) ==
    LET r == cleanupLoop(order, sessions, now - olderThanMs, 0) IN
    /\ sessions' = r.reg
    /\ order' = SelectSeq(order, LAMBDA k : k \in DOMAIN r.reg)
    /\ lastCall' = Call("cleanup", "", olderThanMs, FALSE, r.count)
    /\ callLog' = Restrict(callLog, DOMAIN r.reg)
    /\ UNCHANGED now

\* getAll(): the Map's values, in its order
getAll == [i \in 1..Len(order) |-> sessions[order[i]]]

\* countByTool that sets an entry to 1 instead of adding 1 to it
RECURSIVE countByToolFlag(_, _)
countByToolFlag(list, byTool) ==
    IF list = <<>>
    THEN byTool
    ELSE countByToolFlag(Tail(list), Put(byTool, Head(list).tool, 1))

\* getStats' loop: byTool[session.tool] = (byTool[session.tool] ?? 0) + 1
RECURSIVE countByTool(_, _)
countByTool(list, byTool) ==
    IF list = <<>>
    THEN byTool
    ELSE LET tool == Head(list).tool
             seen == IF tool \in DOMAIN byTool THEN byTool[tool] ELSE 0
         IN countByTool(Tail(list), Put(byTool, tool, seen + 1))

\* getStats(): computed from the sessions held at the call
getStats ==
    LET all == getAll IN
    [total |-> Len(all),
     active |-> Len(SelectSeq(all, LAMBDA session : session.status = "active")),
     completed |-> Len(SelectSeq(all, LAMBDA session : session.status = "completed")),
     failed |-> Len(SelectSeq(all, LAMBDA session : session.status = "failed")),
     byTool |-> countByTool(all, <<>>)]

\* the clock advances between calls
Tick ==
    /\ now < MaxTime
    /\ now' = now + 1
    /\ lastCall' = NoCall
    /\ UNCHANGED <<sessions, order, callLog>>

Create == 
    /\ \E tool \in Tools, id \in Ids : create(tool, id)
    /\ UNCHANGED <<sweep, streamVars, execVars, apiVars, analyzerVars, extVars>>

CreateGenerated ==
    /\ \E tool \in Tools : createGenerated(tool)
    /\ UNCHANGED <<sweep, streamVars, execVars, apiVars, analyzerVars, extVars>>

AddMessage ==
    /\ \E id \in Ids, role \in Roles, content \in Contents :
           addMessage(id, role, content)
    /\ UNCHANGED <<sweep, streamVars, execVars, apiVars, analyzerVars, extVars>>

Complete ==
    /\ \E id \in Ids, status \in TerminalStatus : complete(id, status)
    /\ UNCHANGED <<sweep, streamVars, execVars, apiVars, analyzerVars, extVars>>

Delete ==
    /\ \E id \in Ids : delete(id)
    /\ UNCHANGED <<sweep, streamVars, execVars, apiVars, analyzerVars, extVars>>

Cleanup ==
    /\ \E age \in 0..MaxAge : cleanup(age)
    /\ UNCHANGED <<sweep, streamVars, execVars, apiVars, analyzerVars, extVars>>

\* a getStats() call: reads the registry and leaves it as it is
GetStats ==
    /\ lastCall' = Call("getStats", "", 0, FALSE, getStats.total)
    /\ UNCHANGED <<sessions, order, now, callLog>>
    /\ UNCHANGED <<sweep, streamVars, execVars, apiVars, analyzerVars, extVars>>

ClockTick ==
    /\ Tick
    /\ UNCHANGED <<sweep, streamVars, execVars, apiVars, analyzerVars, extVars>>

SessionNext ==
    \/ Create
    \/ CreateGenerated
    \/ AddMessage
    \/ Complete
    \/ Delete
    \/ Cleanup
    \/ GetStats
    \/ ClockTick

\* ------------------------------------------------- successive cleanup calls
\* The registry with the latest cleanup call on record (sweep).  The calls
\* are those of SessionNext that cleanup can see the effect of: addMessage
\* writes only the messages, which cleanup does not read.

\* the call cleanup(olderThanMs) made now.  fresh: the clock still reads what
\* it read at the call; calls: 2 when the cleanup call before it was the same
\* call at the same clock reading, else 1
Sweep(olderThanMs) ==
    [arg |-> olderThanMs, fresh |-> TRUE,
     calls |-> IF sweep.arg = olderThanMs /\ sweep.fresh THEN 2 ELSE 1]

\* the clock has moved on since the latest cleanup call
Stale(s) ==
    IF s = NoSweep THEN s ELSE [s EXCEPT !.fresh = FALSE, !.calls = 1]

SweepComplete ==
    /\ \E id \in Ids, status \in TerminalStatus : complete(id, status)
    /\ sweep' = IF lastCall'.threw THEN sweep ELSE NoSweep
    /\ UNCHANGED <<streamVars, execVars, apiVars, analyzerVars, extVars>>

SweepCleanup ==
    /\ \E age \in 0..MaxAge : cleanup(age) /\ sweep' = Sweep(age)
    /\ UNCHANGED <<streamVars, execVars, apiVars, analyzerVars, extVars>>

SweepTick ==
    /\ Tick
    /\ sweep' = Stale(sweep)
    /\ UNCHANGED <<streamVars, execVars, apiVars, analyzerVars, extVars>>

SweepNext ==
    \/ Create
    \/ CreateGenerated
    \/ Delete
    \/ SweepComplete
    \/ SweepCleanup
    \/ SweepTick

\* ================================================================= stream
\* An adapter as constructed: its class, the command and the endpoint its
\* constructor stored.  "null" is JavaScript's null, "" the empty string.
Null == "null"

\* `!x` for a string-or-null x
Falsy(x) == x \in {Null, ""}

AdapterNames == {"claude-code", "opencode", "cursor", "aider"}

\* new ClaudeCodeAdapter(config): command = config?.command ?? "claude"
ClaudeCodeAdapter(command) ==
    [name |-> "claude-code", command |-> command, endpoint |-> Null]

\* new OpenCodeAdapter(config): endpoint = config?.endpoint ?? null,
\* command = config?.command ?? "opencode"
OpenCodeAdapter(command, endpoint) ==
    [name |-> "opencode", command |-> command, endpoint |-> endpoint]

\* new CursorAdapter()
CursorAdapter == [name |-> "cursor", command |-> Null, endpoint |-> Null]

\* new AiderAdapter(): command = config?.command ?? "aider"
AiderAdapter == [name |-> "aider", command |-> "aider", endpoint |-> Null]

\* no adapter: before stream() or execute() is called
NoAdapter == [name |-> "none", command |-> Null, endpoint |-> Null]

\* getAdapter(name, toolConfig): the adapters the factory can return; the
\* claude-code command comes from the tool configuration
getAdapter(name) ==
    CASE name = "claude-code" -> {ClaudeCodeAdapter(c) : c \in {"claude", ""}}
      [] name = "opencode" -> {OpenCodeAdapter("opencode", Null)}
      [] name = "cursor" -> {CursorAdapter}
      [] name = "aider" -> {AiderAdapter}
      [] OTHER -> {}

FactoryAdapters == UNION {getAdapter(n) : n \in AdapterNames}

\* every adapter the constructors can build
Adapters ==
    FactoryAdapters
    \cup {OpenCodeAdapter(c, e) : c \in {"opencode", ""}, e \in {Null, "http://host"}}

\* getCommand() of each class
getCommand(a) ==
    CASE a.name = "claude-code" -> a.command
      [] a.name = "opencode" -> IF ~Falsy(a.endpoint) THEN Null ELSE a.command
      [] a.name = "cursor" -> Null
      [] a.name = "aider" -> a.command

\* request.options.sessionId when the caller gave none
NoSessionId == "undefined"

RequestSessionIds == {"s1", NoSessionId}

\* generateSessionId(): `${name}-${Date.now()}-${random}`
generateSessionId(a) == "generated"

\* an adapter that always generates its own session id
sessionIdGenerated(a, requested) == generateSessionId(a)

\* request.options.sessionId ?? this.generateSessionId()
sessionIdOf(a, requested) ==
    IF requested = NoSessionId THEN generateSessionId(a) ELSE requested

\* the four event shapes
\* what fetch resolves with: Response.status, Response.statusText and
\* whether Response.body is set
Statuses == {200, 201, 304, 404, 500}
statusText(status) ==
    CASE status = 200 -> "OK"
      [] status = 201 -> "Created"
      [] status = 304 -> "Not Modified"
      [] status = 404 -> "Not Found"
      [] status = 500 -> "Internal Server Error"
Responses ==
    {[status |-> st, statusText |-> statusText(st), hasBody |-> b] :
        st \in Statuses, b \in BOOLEAN}
NoResponse == [status |-> 0, statusText |-> "", hasBody |-> FALSE]

\* Response.ok: the status is in the range 200-299
isOk(response) == response.status >= 200 /\ response.status <= 299

\* `API error: ${response.status} ${response.statusText}`
apiError(response) ==
    "API error: " \o ToString(response.status) \o " " \o response.statusText

RoutingEvent(tool, sessionId) ==
    [type |-> "routing", data |-> [tool |-> tool, sessionId |-> sessionId]]

OutputEvent(content) == [type |-> "output", data |-> [content |-> content]]

ErrorEvent(error) == [type |-> "error", data |-> [error |-> error]]

CompleteEvent(status) == [type |-> "complete", data |-> [status |-> status]]

IsTerminalEvent(e) == e.type \in {"complete", "error"}

Running(pc) == pc \notin {"idle", "done"}

\* BaseAdapter.stream up to its first await: routing, the configuration
\* check, Bun.spawn (which may throw into the catch), then `await
\* reader.read()`.
baseStreamStart(a, sessionId, spawnOk) ==
    LET routed == <<RoutingEvent(a.name, sessionId)>> IN
    IF Falsy(getCommand(a))
    THEN [events |-> Append(routed,
                       ErrorEvent("Tool " \o a.name \o " is not configured")),
          pc |-> "done"]
    ELSE IF ~spawnOk
         THEN [events |-> Append(routed, ErrorEvent("spawn failed")), pc |-> "done"]
         ELSE [events |-> routed, pc |-> "read"]

\* OpenCodeAdapter.streamViaApi up to its first await: routing, the endpoint
\* check, then `await fetch(...)`.
streamViaApiStart(a, sessionId) ==
    LET routed == <<RoutingEvent(a.name, sessionId)>> IN
    IF Falsy(a.endpoint)
    THEN [events |-> Append(routed, ErrorEvent("OpenCode endpoint not configured")),
          pc |-> "done"]
    ELSE [events |-> routed, pc |-> "fetch"]

\* CursorAdapter.stream and AiderAdapter.stream: a single error event
placeholderStream(a) ==
    [events |-> <<ErrorEvent((IF a.name = "cursor" THEN "Cursor" ELSE "Aider")
                                 \o " adapter is not yet implemented")>>,
     pc |-> "done"]

\* stream(request, onEvent) as dispatched by the adapter's class
streamStart(a, sessionId, spawnOk) ==
    CASE a.name \in {"cursor", "aider"} -> placeholderStream(a)
      [] a.name = "opencode" /\ ~Falsy(a.endpoint) -> streamViaApiStart(a, sessionId)
      [] OTHER -> baseStreamStart(a, sessionId, spawnOk)

\* adapter.stream(request, onEvent) is called
Stream ==
    /\ spc = "idle"
    /\ \E a \in Adapters, requested \in RequestSessionIds, spawnOk \in BOOLEAN :
         LET r == streamStart(a, sessionIdOf(a, requested), spawnOk) IN
         /\ sAdapter' = a
         /\ sRequested' = requested
         /\ sSessionId' = sessionIdOf(a, requested)
         /\ events' = r.events
         /\ spc' = r.pc
         /\ sResponse' = NoResponse
    /\ UNCHANGED <<cancelled, nChunks, xResponse, sessionVars, execVars, apiVars,
                   analyzerVars, probeVars, moreVars>>

\* `await reader.read()` of the subprocess's stdout settles, in the loop of
\* BaseAdapter.stream: a chunk, the end of the stream, or a rejection
onStdoutRead(evs, outcome) ==
    CASE outcome = "chunk" -> [events |-> Append(evs, OutputEvent("text")), pc |-> "read"]
      [] outcome = "done" -> [events |-> evs, pc |-> "exit"]
      [] outcome = "reject" ->
             [events |-> Append(evs, ErrorEvent("read failed")), pc |-> "done"]

ReadStdout ==
    /\ spc = "read"
    /\ \E outcome \in {"chunk", "done", "reject"} :
         /\ outcome = "chunk" => nChunks < MaxChunks
         /\ LET r == onStdoutRead(events, outcome) IN
            /\ events' = r.events
            /\ spc' = r.pc
         /\ nChunks' = IF outcome = "chunk" THEN nChunks + 1 ELSE nChunks
    /\ UNCHANGED <<sAdapter, sRequested, sSessionId, cancelled, sessionVars, execVars, apiVars, analyzerVars, extVars>>

\* `await proc.exited` settles in BaseAdapter.stream
onStreamExit(evs, exitCode) ==
    Append(evs, [type |-> "complete",
                 data |-> [status |-> IF exitCode = 0 THEN "success" ELSE "failed",
                           exitCode |-> exitCode]])

StreamProcExited ==
    /\ spc = "exit"
    /\ \E exitCode \in {0, 1} : events' = onStreamExit(events, exitCode)
    /\ spc' = "done"
    /\ UNCHANGED <<sAdapter, sRequested, sSessionId, cancelled, nChunks, sessionVars, execVars, apiVars, analyzerVars, extVars>>

\* onStreamFetch with the `return` after the non-2xx error event left out
onStreamFetchNoReturn(evs, rejected, response) ==
    CASE rejected ->
             [events |-> Append(evs, ErrorEvent("fetch failed")), pc |-> "done"]
      [] ~rejected /\ ~isOk(response) ->
             [events |-> Append(evs, ErrorEvent(apiError(response))),
              pc |-> "readBody"]
      [] ~rejected /\ isOk(response) /\ ~response.hasBody ->
             [events |-> Append(evs, ErrorEvent("No response body")), pc |-> "done"]
      [] OTHER -> [events |-> evs, pc |-> "readBody"]

\* `await fetch(...)` settles in streamViaApi: a rejection (network error),
\* a non-2xx response, a response without a body, or a readable body
onStreamFetch(evs, rejected, response) ==
    CASE rejected ->
             [events |-> Append(evs, ErrorEvent("fetch failed")), pc |-> "done"]
      [] ~rejected /\ ~isOk(response) ->
             [events |-> Append(evs, ErrorEvent(apiError(response))),
              pc |-> "done"]
      [] ~rejected /\ isOk(response) /\ ~response.hasBody ->
             [events |-> Append(evs, ErrorEvent("No response body")), pc |-> "done"]
      [] OTHER -> [events |-> evs, pc |-> "readBody"]

StreamFetchSettled ==
    /\ spc = "fetch"
    /\ \E rejected \in BOOLEAN, response \in Responses :
         LET r == onStreamFetch(events, rejected, response) IN
         /\ events' = r.events
         /\ spc' = r.pc
         /\ sResponse' = IF rejected THEN NoResponse ELSE response
    /\ UNCHANGED <<sAdapter, sRequested, sSessionId, cancelled, nChunks, xResponse, sessionVars,
                   execVars, apiVars, analyzerVars, probeVars, moreVars>>

\* The lines of a decoded chunk, after split("\n").filter(Boolean):
\*   "json"  `data: {"content": ...}`       -> an output event
\*   "bad"   `data: ` followed by text JSON.parse rejects -> throws
\*   "other" a line that does not start with `data: `     -> skipped
LineKinds == {"json", "bad", "other"}

RECURSIVE SeqsUpTo(_, _)
SeqsUpTo(S, n) ==
    IF n = 0 THEN {<<>>}
    ELSE LET shorter == SeqsUpTo(S, n - 1) IN
         shorter \cup {Append(q, x) : q \in shorter, x \in S}

\* the `for (const line of lines)` loop of streamViaApi; a throw of
\* JSON.parse leaves the loop for the catch clause
RECURSIVE processLines(_, _)
processLines(evs, lines) ==
    IF lines = <<>>
    THEN [events |-> evs, threw |-> FALSE]
    ELSE CASE Head(lines) = "json" ->
                  processLines(Append(evs, OutputEvent("text")), Tail(lines))
           [] Head(lines) = "bad" -> [events |-> evs, threw |-> TRUE]
           [] OTHER -> processLines(evs, Tail(lines))

\* `await reader.read()` of the response body settles
onBodyRead(evs, outcome, lines) ==
    CASE outcome = "chunk" ->
             LET r == processLines(evs, lines) IN
             IF r.threw
             THEN [events |-> Append(r.events, ErrorEvent("JSON parse failed")),
                   pc |-> "done"]
             ELSE [events |-> r.events, pc |-> "readBody"]
      [] outcome = "done" ->
             [events |-> Append(evs, CompleteEvent("success")), pc |-> "done"]
      [] outcome = "reject" ->
             [events |-> Append(evs, ErrorEvent("read failed")), pc |-> "done"]

ReadBody ==
    /\ spc = "readBody"
    /\ \E outcome \in {"chunk", "done", "reject"}, lines \in SeqsUpTo(LineKinds, MaxLines) :
         /\ outcome = "chunk" => nChunks < MaxChunks
         /\ outcome # "chunk" => lines = <<>>
         /\ LET r == onBodyRead(events, outcome, lines) IN
            /\ events' = r.events
            /\ spc' = r.pc
         /\ nChunks' = IF outcome = "chunk" THEN nChunks + 1 ELSE nChunks
    /\ UNCHANGED <<sAdapter, sRequested, sSessionId, cancelled, sessionVars, execVars, apiVars, analyzerVars, extVars>>

\* BaseAdapter.cancel(_sessionId): the body is empty, and no adapter
\* overrides it.  `cancelled` only records that the call was made, and
\* returned, for the session of the stream that is running.
cancel(sessionId) ==
    /\ cancelled' = (cancelled \/ (Running(spc) /\ sessionId = sSessionId))
    /\ UNCHANGED <<sAdapter, sRequested, sSessionId, spc, events, nChunks>>

Cancel ==
    /\ \E sessionId \in {"s1", "s2", "generated"} : cancel(sessionId)
    /\ UNCHANGED <<sessionVars, execVars, apiVars, analyzerVars, extVars>>

StreamNext ==
    \/ Stream
    \/ ReadStdout
    \/ StreamProcExited
    \/ StreamFetchSettled
    \/ ReadBody
    \/ Cancel

\* ================================================================ execute
\* Two BaseAdapter.execute are in the repository:
\*   "pipe"  adapters/base.ts: pipes stdout and stderr, then saveToLog;
\*   "file"  the variant that redirects the output to a pipe file, which
\*           comes with the ClaudeCodeAdapter whose execute changes the
\*           working directory around super.execute.
Variants == {"pipe", "file"}

\* error?: string when it is absent
NoError == "undefined"

Result(success, output, error, sessionId) ==
    [success |-> success, output |-> output, error |-> error, sessionId |-> sessionId]

NoResult == Result(FALSE, "", NoError, NoSessionId)

Failure(error, sessionId) == Result(FALSE, "", error, sessionId)

\* ClaudeCodeAdapter.execute of the "file" variant wraps super.execute in
\* process.chdir("/tmp") ... finally process.chdir(originalCwd)
ChangesDirectory(a, variant) == a.name = "claude-code" /\ variant = "file"

\* execute returns `result`: through the finally clause of
\* ClaudeCodeAdapter.execute when there is one, whose chdir may throw
finish(a, variant, result, restoreOk) ==
    IF ChangesDirectory(a, variant) /\ ~restoreOk
    THEN [pc |-> "raised", result |-> result]
    ELSE [pc |-> "returned", result |-> result]

\* an exception leaves execute (the finally clause runs on the way out)
raise(result) == [pc |-> "raised", result |-> result]

\* BaseAdapter.execute of adapters/base.ts up to its first await
pipeExecuteStart(a, sessionId, spawnOk) ==
    IF Falsy(getCommand(a))
    THEN [pc |-> "log",
          result |-> Failure("Tool " \o a.name \o " is not configured", sessionId)]
    ELSE IF ~spawnOk
         THEN [pc |-> "log", result |-> Failure("spawn failed", sessionId)]
         ELSE [pc |-> "stdout", result |-> Failure(NoError, sessionId)]

\* BaseAdapter.execute of the pipe-file variant up to its first await: the
\* configuration check, then Bun.spawn(["mkdir", ...]) outside any try
fileExecuteStart(a, sessionId, spawnOk, restoreOk) ==
    IF Falsy(getCommand(a))
    THEN finish(a, "file",
                Failure("Tool " \o a.name \o " is not configured", sessionId),
                restoreOk)
    ELSE IF ~spawnOk
         THEN raise(Failure(NoError, sessionId))
         ELSE [pc |-> "mkdir", result |-> Failure(NoError, sessionId)]

\* CursorAdapter.execute and AiderAdapter.execute
placeholderExecute(a, sessionId) ==
    [pc |-> "returned",
     result |-> Failure((IF a.name = "cursor" THEN "Cursor" ELSE "Aider")
                            \o " adapter is not yet implemented", sessionId)]

\* execute(request) as dispatched by the adapter's class, up to the first
\* await
executeStart(a, variant, sessionId, chdirOk, spawnOk, restoreOk) ==
    CASE a.name \in {"cursor", "aider"} -> placeholderExecute(a, sessionId)
      [] a.name = "opencode" /\ ~Falsy(a.endpoint) ->
             [pc |-> "fetch", result |-> Failure(NoError, sessionId)]
      [] ChangesDirectory(a, variant) /\ ~chdirOk ->
             raise(Failure(NoError, sessionId))
      [] OTHER ->
             IF variant = "pipe"
             THEN pipeExecuteStart(a, sessionId, spawnOk)
             ELSE fileExecuteStart(a, sessionId, spawnOk, restoreOk)

\* the backend process before it has written anything or exited
NoProc == [stdout |-> Null, stderr |-> Null, exitCode |-> Undefined]

\* adapter.execute(request) is called
Execute ==
    /\ xpc = "idle"
    /\ \E a \in Adapters, variant \in Variants, requested \in RequestSessionIds,
          chdirOk \in BOOLEAN, spawnOk \in BOOLEAN, restoreOk \in BOOLEAN,
          neverExits \in BOOLEAN :
         LET r == executeStart(a, variant, sessionIdOf(a, requested),
                               chdirOk, spawnOk, restoreOk) IN
         /\ xAdapter' = a
         /\ xRequested' = requested
         /\ xVariant' = variant
         /\ xpc' = r.pc
         /\ xResult' = r.result
         /\ hung' = neverExits
         /\ xProc' = NoProc
         /\ xResponse' = NoResponse
    /\ UNCHANGED <<sResponse, sessionVars, streamVars, apiVars, analyzerVars, probeVars, moreVars>>

\* "file": `await procMkdir.exited` settles; Bun.write(pipePath, header) is
\* issued
MkdirExited ==
    /\ xpc = "mkdir"
    /\ xpc' = "header"
    /\ UNCHANGED <<xAdapter, xRequested, xVariant, xResult, hung, xProc, sessionVars, streamVars, apiVars, analyzerVars, extVars>>

\* "file": the catch clause: the error footer is written by a spawned shell
onSpawnError(result, footerSpawnOk) ==
    IF ~footerSpawnOk
    THEN raise(result)
    ELSE [pc |-> "footer",
          result |-> Result(FALSE, "Pipe saved to: path", "spawn failed",
                            result.sessionId)]

\* "file": `await Bun.write(pipePath, header)` settles, outside any try;
\* then the backend is spawned through sh -c inside the try
onHeaderWritten(result, writeOk, spawnOk, footerSpawnOk) ==
    IF ~writeOk
    THEN raise(result)
    ELSE IF spawnOk
         THEN [pc |-> "exit", result |-> result]
         ELSE onSpawnError(result, footerSpawnOk)

HeaderWritten ==
    /\ xpc = "header"
    /\ \E writeOk \in BOOLEAN, spawnOk \in BOOLEAN, footerSpawnOk \in BOOLEAN :
         LET r == onHeaderWritten(xResult, writeOk, spawnOk, footerSpawnOk) IN
         /\ xpc' = r.pc
         /\ xResult' = r.result
    /\ UNCHANGED <<xAdapter, xRequested, xVariant, hung, xProc, sessionVars, streamVars, apiVars, analyzerVars, extVars>>

\* "pipe": `await new Response(proc.stdout).text()` settles
onStdoutText(result, ok, text) ==
    IF ok
    THEN [pc |-> "stderr", result |-> [result EXCEPT !.output = text]]
    ELSE [pc |-> "log", result |-> Failure("read failed", result.sessionId)]

StdoutText ==
    /\ xpc = "stdout"
    /\ ~hung
    /\ \E ok \in BOOLEAN, text \in {"", "out"} :
         LET r == onStdoutText(xResult, ok, text) IN
         /\ xpc' = r.pc
         /\ xResult' = r.result
         /\ xProc' = [xProc EXCEPT !.stdout = text]
    /\ UNCHANGED <<xAdapter, xRequested, xVariant, hung, sessionVars, streamVars, apiVars, analyzerVars, extVars>>

\* "pipe": `await new Response(proc.stderr).text()` settles
onStderrText(result, ok, text) ==
    IF ok
    THEN [pc |-> "exit",
          result |-> [result EXCEPT !.error = IF text = "" THEN NoError ELSE text]]
    ELSE [pc |-> "log", result |-> Failure("read failed", result.sessionId)]

StderrText ==
    /\ xpc = "stderr"
    /\ \E ok \in BOOLEAN, text \in {"", "err"} :
         LET r == onStderrText(xResult, ok, text) IN
         /\ xpc' = r.pc
         /\ xResult' = r.result
         /\ xProc' = [xProc EXCEPT !.stderr = text]
    /\ UNCHANGED <<xAdapter, xRequested, xVariant, hung, sessionVars, streamVars, apiVars, analyzerVars, extVars>>

\* `await proc.exited` settles with the backend's exit code.
\*   "pipe": the result is built and saveToLog is awaited;
\*   "file": the footer is appended by a spawned shell, inside the try, so
\*           a throw of that spawn is handled by the catch clause.
onExit(variant, result, exitCode, footerSpawnOk, errFooterSpawnOk) ==
    IF variant = "pipe"
    THEN [pc |-> "log", result |-> [result EXCEPT !.success = (exitCode = 0)]]
    ELSE IF footerSpawnOk
         THEN [pc |-> "footer",
               result |-> Result(exitCode = 0, "Output saved to: path",
                                 IF exitCode # 0 THEN "Exit code: 1" ELSE NoError,
                                 result.sessionId)]
         ELSE onSpawnError(result, errFooterSpawnOk)

ProcExited ==
    /\ xpc = "exit"
    /\ ~hung
    /\ \E exitCode \in {0, 1}, footerSpawnOk \in BOOLEAN, errFooterSpawnOk \in BOOLEAN,
          out \in {"", "out"}, err \in {"", "err"} :
         LET r == onExit(xVariant, xResult, exitCode, footerSpawnOk, errFooterSpawnOk) IN
         /\ xpc' = r.pc
         /\ xResult' = r.result
         /\ xProc' = IF xVariant = "pipe"
                     THEN [xProc EXCEPT !.exitCode = exitCode]
                     ELSE [stdout |-> out, stderr |-> err, exitCode |-> exitCode]
    /\ UNCHANGED <<xAdapter, xRequested, xVariant, hung, sessionVars, streamVars, apiVars, analyzerVars, extVars>>

\* "file": `await procFooter.exited` settles and execute returns
FooterExited ==
    /\ xpc = "footer"
    /\ \E restoreOk \in BOOLEAN :
         LET r == finish(xAdapter, xVariant, xResult, restoreOk) IN
         /\ xpc' = r.pc
         /\ xResult' = r.result
    /\ UNCHANGED <<xAdapter, xRequested, xVariant, hung, xProc, sessionVars, streamVars, apiVars, analyzerVars, extVars>>

\* saveToLog: `await Bun.write(logPath, logContent)` settles; a rejection is
\* swallowed by its catch clause, and execute returns the result
onLogWritten(result, writeOk) == [pc |-> "returned", result |-> result]

LogWritten ==
    /\ xpc = "log"
    /\ \E writeOk \in BOOLEAN :
         LET r == onLogWritten(xResult, writeOk) IN
         /\ xpc' = r.pc
         /\ xResult' = r.result
    /\ UNCHANGED <<xAdapter, xRequested, xVariant, hung, xProc, sessionVars, streamVars, apiVars, analyzerVars, extVars>>

\* executeViaApi where a response of any status is read as JSON
onExecuteFetchAnyStatus(result, rejected, response) ==
    IF rejected
    THEN [pc |-> "log", result |-> Failure("fetch failed", result.sessionId)]
    ELSE [pc |-> "json", result |-> result]

\* executeViaApi: `await fetch(...)` settles
onExecuteFetch(result, rejected, response) ==
    CASE rejected ->
             [pc |-> "log", result |-> Failure("fetch failed", result.sessionId)]
      [] ~rejected /\ ~isOk(response) ->
             [pc |-> "log",
              result |-> Failure(apiError(response), result.sessionId)]
      [] OTHER -> [pc |-> "json", result |-> result]

ExecuteFetchSettled ==
    /\ xpc = "fetch"
    /\ \E rejected \in BOOLEAN, response \in Responses :
         LET r == onExecuteFetch(xResult, rejected, response) IN
         /\ xpc' = r.pc
         /\ xResult' = r.result
         /\ xResponse' = IF rejected THEN NoResponse ELSE response
    /\ UNCHANGED <<xAdapter, xRequested, xVariant, hung, xProc, sResponse, sessionVars, streamVars,
                   apiVars, analyzerVars, probeVars, moreVars>>

\* executeViaApi: `await response.json()` settles
onJson(result, ok, output) ==
    IF ok
    THEN [pc |-> "log", result |-> Result(TRUE, output, NoError, result.sessionId)]
    ELSE [pc |-> "log", result |-> Failure("invalid JSON", result.sessionId)]

JsonParsed ==
    /\ xpc = "json"
    /\ \E ok \in BOOLEAN, output \in {"", "out"} :
         LET r == onJson(xResult, ok, output) IN
         /\ xpc' = r.pc
         /\ xResult' = r.result
    /\ UNCHANGED <<xAdapter, xRequested, xVariant, hung, xProc, sessionVars, streamVars, apiVars, analyzerVars, extVars>>

ExecNext ==
    \/ Execute
    \/ MkdirExited
    \/ HeaderWritten
    \/ StdoutText
    \/ StderrText
    \/ ProcExited
    \/ FooterExited
    \/ LogWritten
    \/ ExecuteFetchSettled
    \/ JsonParsed

\* ================================================================ analyzer
\* analyzeRequest and its helpers.  Strings are TLA+ strings: Len, \o and
\* SubSeq act on them as on sequences of characters.  confidence is held in
\* hundredths (0.85 is 85).

TASK_KEYWORDS ==
    [code_generation |->
         <<"generate", "create", "scaffold", "add", "implement", "build",
           "new feature", "new component", "new function", "boilerplate">>,
     refactoring |->
         <<"refactor", "restructure", "reorganize", "clean up", "optimize",
           "improve", "rewrite", "extract", "move", "rearrange">>,
     debugging |->
         <<"debug", "fix", "bug", "error", "issue", "broken", "not working",
           "crash", "fail", "exception">>,
     review |->
         <<"review", "check", "analyze", "audit", "inspect", "examine">>,
     documentation |->
         <<"document", "docstring", "comment", "readme", "explain", "describe">>,
     architecture |->
         <<"architecture", "design", "structure", "pattern", "approach",
           "how should i", "best practice", "system design", "discuss">>,
     quick_fix |->
         <<"quick", "simple", "small", "minor", "tweak", "adjust">>]

\* the keys of TASK_KEYWORDS and of scores, in the order Object.entries
\* visits them
TaskTypes ==
    <<"code_generation", "refactoring", "debugging", "review",
      "documentation", "architecture", "quick_fix">>

COMPLEXITY_KEYWORDS ==
    [high |-> <<"architecture", "design", "system", "multiple", "across",
                "workspace", "entire", "whole", "comprehensive", "complete",
                "full", "all">>,
     low |-> <<"single", "one", "just this", "only", "quick", "simple",
               "small", "minor", "one file", "this file">>]

charAt(s, i) == SubSeq(s, i, i)

\* the position of character c in chars, 0 when it is not there
indexOf(chars, c) ==
    IF \E i \in 1..Len(chars) : charAt(chars, i) = c
    THEN CHOOSE i \in 1..Len(chars) : charAt(chars, i) = c
    ELSE 0

\* String.prototype.includes
includes(input, keyword) ==
    \E i \in 1..(Len(input) - Len(keyword) + 1) :
        SubSeq(input, i, i + Len(keyword) - 1) = keyword

UpperCase == "ABCDEFGHIJKLMNOPQRSTUVWXYZ"
LowerCase == "abcdefghijklmnopqrstuvwxyz"

\* String.prototype.toLowerCase, on ASCII
RECURSIVE toLowerCase(_)
toLowerCase(s) ==
    IF s = "" THEN ""
    ELSE LET c == charAt(s, 1)
             k == indexOf(UpperCase, c)
         IN (IF k = 0 THEN c ELSE charAt(LowerCase, k))
                \o toLowerCase(SubSeq(s, 2, Len(s)))

WhiteSpace == {" ", "\t", "\n"}

\* String.prototype.trim
RECURSIVE trim(_)
trim(s) ==
    IF s = "" THEN ""
    ELSE IF charAt(s, 1) \in WhiteSpace THEN trim(SubSeq(s, 2, Len(s)))
    ELSE IF charAt(s, Len(s)) \in WhiteSpace THEN trim(SubSeq(s, 1, Len(s) - 1))
    ELSE s

\* the characters of the class [\w./-]
RefChars == LowerCase \o UpperCase \o "0123456789_" \o "./-"

\* the last position of the run of [\w./-] characters that holds position i
RECURSIVE runEnd(_, _)
runEnd(s, i) ==
    IF i < Len(s) /\ indexOf(RefChars, charAt(s, i + 1)) # 0
    THEN runEnd(s, i + 1)
    ELSE i

\* input.match(/@[\w./-]+/g), scanning from position i: the matches from
\* left to right, each an "@" and the longest run of class characters after
\* it.  No match (null in the code) is the empty list.
RECURSIVE match(_, _)
match(s, i) ==
    IF i >= Len(s) THEN <<>>
    ELSE IF charAt(s, i) = "@" /\ indexOf(RefChars, charAt(s, i + 1)) # 0
         THEN <<SubSeq(s, i, runEnd(s, i + 1))>> \o match(s, runEnd(s, i + 1) + 1)
         ELSE match(s, i + 1)

\* countIncluded that stops at the first keyword found
RECURSIVE countIncludedOnce(_, _)
countIncludedOnce(input, keywords) ==
    IF keywords = <<>> THEN 0
    ELSE IF includes(input, Head(keywords)) THEN 1
    ELSE countIncludedOnce(input, Tail(keywords))

\* for (const keyword of keywords) if (input.includes(keyword)) n += 1
RECURSIVE countIncluded(_, _)
countIncluded(input, keywords) ==
    IF keywords = <<>> THEN 0
    ELSE (IF includes(input, Head(keywords)) THEN 1 ELSE 0)
             + countIncluded(input, Tail(keywords))

\* detectTaskType's scores
scores(input) ==
    [type \in DOMAIN TASK_KEYWORDS |-> countIncluded(input, TASK_KEYWORDS[type])]

\* detectTaskType's second loop: the first type whose score exceeds every
\* score before it
RECURSIVE maxLoop(_, _, _, _)
maxLoop(types, score, maxScore, detectedType) ==
    IF types = <<>> THEN detectedType
    ELSE IF score[Head(types)] > maxScore
         THEN maxLoop(Tail(types), score, score[Head(types)], Head(types))
         ELSE maxLoop(Tail(types), score, maxScore, detectedType)

detectTaskType(input) == maxLoop(TaskTypes, scores(input), 0, "code_generation")

\* typeComplexity without the table: `let complexity = 5` for every type
typeComplexityFlat == [type \in DOMAIN TASK_KEYWORDS |-> 5]

typeComplexity ==
    [architecture |-> 8, refactoring |-> 6, debugging |-> 5,
     code_generation |-> 4, review |-> 5, documentation |-> 3, quick_fix |-> 2]

\* clamp without its upper end
clampBelow(complexity) == IF complexity < 1 THEN 1 ELSE complexity

\* Math.max(1, Math.min(10, complexity))
clamp(complexity) ==
    LET min == IF complexity < 10 THEN complexity ELSE 10
    IN IF min > 1 THEN min ELSE 1

\* the adjustment for file references
fileBonus(fileMatches) ==
    IF Len(fileMatches) > 3 THEN 2
    ELSE IF Len(fileMatches) > 1 THEN 1
    ELSE 0

calculateComplexity(input, taskType) ==
    clamp(typeComplexity[taskType]
              + countIncluded(input, COMPLEXITY_KEYWORDS.high)
              - countIncluded(input, COMPLEXITY_KEYWORDS.low)
              + fileBonus(match(input, 1)))

extractFileReferences(input) == match(input, 1)

\* selectTool with `complexity <= 6` in its generation branch
selectToolUpTo6(taskType, complexity, affectedFiles) ==
    IF complexity > 6 \/ taskType = "architecture"
    THEN [tool |-> "claude-code", confidence |-> 90,
          reasoning |-> "Complex task (" \o ToString(complexity) \o
              "/10) requiring advanced reasoning and multi-file coordination"]
    ELSE IF taskType = "code_generation" /\ complexity <= 6
    THEN [tool |-> "opencode", confidence |-> 85,
          reasoning |-> "Code generation task best handled by specialized generation tool"]
    ELSE IF taskType = "debugging" \/ taskType = "refactoring"
    THEN [tool |-> "claude-code", confidence |-> 80,
          reasoning |-> "Task requires analysis and understanding of existing code"]
    ELSE IF taskType = "review" \/ taskType = "architecture"
    THEN [tool |-> "claude-code", confidence |-> 90,
          reasoning |-> "Task requires deep analysis and reasoning capabilities"]
    ELSE [tool |-> "claude-code", confidence |-> 50,
          reasoning |-> "Using default tool for general purpose handling"]

selectTool(taskType, complexity, affectedFiles) ==
    IF complexity > 6 \/ taskType = "architecture"
    THEN [tool |-> "claude-code", confidence |-> 90,
          reasoning |-> "Complex task (" \o ToString(complexity) \o
              "/10) requiring advanced reasoning and multi-file coordination"]
    ELSE IF taskType = "code_generation" /\ complexity < 6
    THEN [tool |-> "opencode", confidence |-> 85,
          reasoning |-> "Code generation task best handled by specialized generation tool"]
    ELSE IF taskType = "debugging" \/ taskType = "refactoring"
    THEN [tool |-> "claude-code", confidence |-> 80,
          reasoning |-> "Task requires analysis and understanding of existing code"]
    ELSE IF taskType = "review" \/ taskType = "architecture"
    THEN [tool |-> "claude-code", confidence |-> 90,
          reasoning |-> "Task requires deep analysis and reasoning capabilities"]
    ELSE [tool |-> "claude-code", confidence |-> 50,
          reasoning |-> "Using default tool for general purpose handling"]

analyzeRequest(input) ==
    LET normalizedInput == trim(toLowerCase(input))
        taskType == detectTaskType(normalizedInput)
        complexity == calculateComplexity(normalizedInput, taskType)
        affectedFiles == extractFileReferences(input)
        result == selectTool(taskType, complexity, affectedFiles)
    IN [taskType |-> taskType,
        complexity |-> complexity,
        affectedFiles |-> affectedFiles,
        suggestedTool |-> result.tool,
        confidence |-> result.confidence,
        reasoning |-> result.reasoning]

\* ------------------------------------------------------- analyzer's inputs
Words ==
    {"design", "create", "debug", "review", "readme", "quick", "refactor",
     "entire", "single", "hello"}

\* file references appended to a prompt
Refs ==
    {"", " @a", " @a @a", " @a @b", " @a @b @c", " @a @b @c @d", " @a @a @a @a"}

Scenarios ==
    {"quick fix typo in readme",
     "refactor the database layer",
     " Refactor The Database Layer\n",
     "",
     "   ",
     "create a complete full module",
     "design the entire system architecture across all workspace",
     "just this one small simple quick minor tweak only"}

Prompts ==
    Scenarios \cup {a \o " " \o b \o r : a \in Words, b \in Words, r \in Refs}

NoAnalysis ==
    [taskType |-> Null, complexity |-> 0, affectedFiles |-> <<>>,
     suggestedTool |-> Null, confidence |-> 0, reasoning |-> ""]

NoArgs == [taskType |-> Null, complexity |-> 0]

NoSelection == [tool |-> Null, confidence |-> 0, reasoning |-> ""]

\* a caller has a prompt to analyze
Request ==
    /\ prompt = Null
    /\ selArgs = NoArgs
    /\ prompt' \in Prompts
    /\ UNCHANGED <<analysis, selArgs, selection>>
    /\ UNCHANGED <<sessionVars, streamVars, execVars, apiVars, extVars>>

\* the call analyzeRequest(prompt)
Analyze ==
    /\ prompt # Null
    /\ analysis = NoAnalysis
    /\ analysis' = analyzeRequest(prompt)
    /\ UNCHANGED <<prompt, selArgs, selection>>
    /\ UNCHANGED <<sessionVars, streamVars, execVars, apiVars, extVars>>

\* a call of selectTool on a task type and a complexity in the range of
\* calculateComplexity
SelectTool ==
    /\ prompt = Null
    /\ selArgs = NoArgs
    /\ \E taskType \in DOMAIN TASK_KEYWORDS, complexity \in 1..10 :
           /\ selArgs' = [taskType |-> taskType, complexity |-> complexity]
           /\ selection' = selectTool(taskType, complexity, <<>>)
    /\ UNCHANGED <<prompt, analysis>>
    /\ UNCHANGED <<sessionVars, streamVars, execVars, apiVars, extVars>>

AnalyzerNext ==
    \/ Request
    \/ Analyze
    \/ SelectTool

\* ===================================================== POST /api/v1/execute
\* The handler of POST /api/v1/execute, cut at its awaits.  The registry's
\* methods are synchronous: a handler that has made one registry call of a
\* run and has another to make before its next await keeps the event loop,
\* and no other callback runs in between.

\* the request handlers that may be in flight together
Handlers == {"h1", "h2"}

\* h is between two registry calls of one synchronous run
MidRun(h) == hpc[h] \in {"created", "answered"}

\* the event loop may run a continuation of h
MayRun(h) == \A g \in Handlers \ {h} : ~MidRun(g)

\* the request arrives; a request without a prompt or for an unknown tool is
\* answered 400 / 404; else the handler awaits adapter.isAvailable()
Accept ==
    /\ \E h \in Handlers, ok \in BOOLEAN :
           /\ hpc[h] = "idle"
           /\ MayRun(h)
           /\ hpc' = [hpc EXCEPT ![h] = IF ok THEN "checking" ELSE "rejected"]
    /\ UNCHANGED <<hsid, hOutcome, sessionVars, streamVars, execVars, analyzerVars, extVars>>

\* a handler that creates the session before it looks at the probe's answer
AvailableCreatesFirst ==
    /\ \E h \in Handlers, available \in BOOLEAN :
           /\ hpc[h] = "checking"
           /\ MayRun(h)
           /\ \E toolName \in Tools : createGenerated(toolName)
           /\ hpc' = [hpc EXCEPT ![h] = IF available THEN "created" ELSE "rejected"]
           /\ hsid' = [hsid EXCEPT ![h] = IF available THEN lastCall'.id ELSE @]
    /\ UNCHANGED <<hOutcome, sweep, streamVars, execVars, analyzerVars, extVars>>

\* isAvailable() settled: 503 when the tool is not available, else
\* sessionManager.create(toolName)
Available ==
    /\ \E h \in Handlers, available \in BOOLEAN :
           /\ hpc[h] = "checking"
           /\ MayRun(h)
           /\ IF available
              THEN /\ \E toolName \in Tools : createGenerated(toolName)
                   /\ hpc' = [hpc EXCEPT ![h] = "created"]
                   /\ hsid' = [hsid EXCEPT ![h] = lastCall'.id]
              ELSE /\ hpc' = [hpc EXCEPT ![h] = "rejected"]
                   /\ UNCHANGED <<hsid, sessions, order, now, lastCall, callLog>>
    /\ UNCHANGED <<hOutcome, sweep, streamVars, execVars, analyzerVars, extVars>>

\* sessionManager.addMessage(session.id, "user", body.prompt), then the call
\* of streamText or of adapter.execute, which the handler awaits
AddUserMessage ==
    /\ \E h \in Handlers, shouldStream \in BOOLEAN, content \in Contents :
           /\ hpc[h] = "created"
           /\ addMessage(hsid[h], "user", content)
           /\ hpc' = [hpc EXCEPT ![h] = IF lastCall'.threw THEN "threw"
                                        ELSE IF shouldStream THEN "streaming"
                                        ELSE "executing"]
    /\ UNCHANGED <<hsid, hOutcome, sweep, streamVars, execVars, analyzerVars, extVars>>

\* adapter.execute settled with success: addMessage(session.id, "assistant",
\* result.output)
ExecuteSucceeded ==
    /\ \E h \in Handlers, output \in Contents :
           /\ hpc[h] = "executing"
           /\ MayRun(h)
           /\ addMessage(hsid[h], "assistant", output)
           /\ hpc' = [hpc EXCEPT ![h] = IF lastCall'.threw THEN "threw"
                                        ELSE "answered"]
           /\ hOutcome' = [hOutcome EXCEPT ![h] = "success"]
    /\ UNCHANGED <<hsid, sweep, streamVars, execVars, analyzerVars, extVars>>

\* complete(session.id, "completed") after the assistant's message
CompleteAnswered ==
    /\ \E h \in Handlers :
           /\ hpc[h] = "answered"
           /\ complete(hsid[h], "completed")
           /\ hpc' = [hpc EXCEPT ![h] = IF lastCall'.threw THEN "threw"
                                        ELSE "completed"]
    /\ UNCHANGED <<hsid, hOutcome, sweep, streamVars, execVars, analyzerVars, extVars>>

\* adapter.execute settled with success = false ("failure"), or raised
\* ("threw"): complete(session.id, "failed")
ExecuteFailed ==
    /\ \E h \in Handlers, outcome \in {"failure", "threw"} :
           /\ hpc[h] = "executing"
           /\ MayRun(h)
           /\ complete(hsid[h], "failed")
           /\ hpc' = [hpc EXCEPT ![h] = IF lastCall'.threw THEN "threw"
                                        ELSE "failed"]
           /\ hOutcome' = [hOutcome EXCEPT ![h] = outcome]
    /\ UNCHANGED <<hsid, sweep, streamVars, execVars, analyzerVars, extVars>>

\* adapter.stream returned, its last event being complete with status
\* success ("success"), or an error event or complete with status failed
\* ("failure"); the callback goes on to complete(session.id, "completed")
StreamEnded ==
    /\ \E h \in Handlers, outcome \in {"success", "failure"} :
           /\ hpc[h] = "streaming"
           /\ MayRun(h)
           /\ complete(hsid[h], "completed")
           /\ hpc' = [hpc EXCEPT ![h] = IF lastCall'.threw THEN "threw"
                                        ELSE "completed"]
           /\ hOutcome' = [hOutcome EXCEPT ![h] = outcome]
    /\ UNCHANGED <<hsid, sweep, streamVars, execVars, analyzerVars, extVars>>

\* stream.write or adapter.stream raised inside the streaming callback: the
\* callback ends before its complete call
StreamRaised ==
    /\ \E h \in Handlers :
           /\ hpc[h] = "streaming"
           /\ MayRun(h)
           /\ hpc' = [hpc EXCEPT ![h] = "aborted"]
           /\ hOutcome' = [hOutcome EXCEPT ![h] = "threw"]
    /\ UNCHANGED <<hsid, sessionVars, streamVars, execVars, analyzerVars, extVars>>

\* a cleanup call from another callback (a timer), between two handler runs
TimerCleanup ==
    /\ \A h \in Handlers : ~MidRun(h)
    /\ \E age \in 0..MaxAge : cleanup(age)
    /\ UNCHANGED <<sweep, apiVars, streamVars, execVars, analyzerVars, extVars>>

\* time passes while the handlers wait
AwaitTick ==
    /\ \A h \in Handlers : ~MidRun(h)
    /\ Tick
    /\ UNCHANGED <<sweep, apiVars, streamVars, execVars, analyzerVars, extVars>>

ApiNext ==
    \/ Accept
    \/ Available
    \/ AddUserMessage
    \/ ExecuteSucceeded
    \/ CompleteAnswered
    \/ ExecuteFailed
    \/ StreamEnded
    \/ StreamRaised
    \/ TimerCleanup
    \/ AwaitTick

\* ================================================== create, ids as text
\* sessions the model lets the map hold
MaxSessions == 2

\* ids a caller supplies; NoId is the omitted argument
SuppliedIds == {"s1", "claude-code-7"}
NoId == "undefined"
\* Math.random().toString(36).slice(2)
Randoms == {"k3f", "x9"}

\* generateId: `session-${Date.now()}-${Math.random().toString(36).slice(2)}`
generateIdText(nowMs, random) ==
    "session-" \o ToString(nowMs) \o "-" \o random

\* the Session object create builds
newSession(sessionId, tool, nowMs) ==
    [id |-> sessionId, tool |-> tool, messages |-> <<>>, startTime |-> nowMs,
     endTime |-> Undefined, status |-> "active"]

NoSession == newSession(NoId, Null, 0)

\* create(tool, id?): `const sessionId = id ?? this.generateId()`, then
\* sessions.set(sessionId, session) and `return session`
createText(tool, id, nowMs, random) ==
    LET sessionId == IF id = NoId THEN generateIdText(nowMs, random) ELSE id
        session == newSession(sessionId, tool, nowMs)
    IN  [sessions |-> [k \in DOMAIN registry \cup {sessionId} |->
                          IF k = sessionId THEN session ELSE registry[k]],
         ret |-> session]

CreateText ==
    /\ \E tool \in Tools, id \in SuppliedIds \cup {NoId}, random \in Randoms :
         LET r == createText(tool, id, now, random) IN
         /\ Cardinality(DOMAIN r.sessions) <= MaxSessions
         /\ registry' = r.sessions
         /\ cArgs' = [tool |-> tool, id |-> id]
         /\ cRet' = r.ret
    /\ UNCHANGED <<coreVars, probeVars, httpVars, editorVars, bodyVars, cwdVars, logVars, cacheVars>>

CreateTextNext == CreateText \/ ClockTick

CreateTextInit ==
    /\ registry = <<>>
    /\ cArgs = [tool |-> Null, id |-> NoId]
    /\ cRet = NoSession

\* ======================================================= symbol completion
\* String.prototype.substring(from, to), offsets counted from 0
substring(str, from, to) == SubSeq(str, from + 1, to)

\* String.prototype.lastIndexOf(ch, fromIndex): the largest offset, at most
\* fromIndex, that holds ch; -1 when there is none
lastIndexOf(str, ch, fromIndex) ==
    LET at == {i \in 0..(Len(str) - 1) : i <= fromIndex /\ charAt(str, i + 1) = ch}
    IN  IF at = {} THEN -1 ELSE CHOOSE i \in at : \A j \in at : j <= i

\* text.match(/@([^\s#]+)#$/): the captured path, Null when there is no
\* match.  The match starts at the leftmost "@" that is followed, up to the
\* closing "#", by one or more characters that are neither space nor "#".
matchFileRef(text) ==
    LET n == Len(text)
        isPath(i) == charAt(text, i) \notin WhiteSpace \cup {"#"}
        starts == {i \in 1..(n - 2) :
                      /\ charAt(text, i) = "@"
                      /\ \A j \in (i + 1)..(n - 1) : isPath(j)}
    IN  IF n = 0 \/ charAt(text, n) # "#" \/ starts = {}
        THEN Null
        ELSE LET i == CHOOSE k \in starts : \A m \in starts : k <= m
             IN  SubSeq(text, i + 1, n - 1)

\* vscode.DocumentSymbol: name, range.start.line and range.end.line (counted
\* from 0), and the name of the enclosing symbol ("" at the top level)
Symbols ==
    {[name |-> nm, parentName |-> pn, startLine |-> st, endLine |-> en] :
        nm \in {"main", "APP"}, pn \in {"", "App"},
        st \in 0..1, en \in 1..2}

NoItem == [insertText |-> Null, rangeStart |-> 0, rangeEnd |-> 0]
NoSymbol == [name |-> Null, parentName |-> "", startLine |-> 0, endLine |-> 0]

\* new vscode.Range(line, a, line, b): the smaller offset is the start
Range(a, b) == IF a <= b THEN <<a, b>> ELSE <<b, a>>

\* provideSymbolCompletion for one symbol of the target file: the item's
\* insertText and range, or NoItem where the code returns []
provideSymbolCompletion(lineText, character, symbol, resolved) ==
    LET textBeforeCursor == substring(lineText, 0, character)
        hashIndexInLine == lastIndexOf(lineText, "#", character)
        fullName == IF symbol.parentName # ""
                    THEN symbol.parentName \o "." \o symbol.name
                    ELSE symbol.name
        startLine == symbol.startLine + 1
        endLine == symbol.endLine + 1
        range == Range(hashIndexInLine + 1, character)
    IN  IF matchFileRef(textBeforeCursor) = Null \/ ~resolved \/ hashIndexInLine = -1
        THEN NoItem
        ELSE [insertText |-> ":" \o ToString(startLine) \o "-" \o ToString(endLine)
                                 \o " " \o fullName,
              rangeStart |-> range[1],
              rangeEnd |-> range[2]]

\* the editor accepts an item: its range is replaced by its insertText
acceptItem(lineText, item) ==
    substring(lineText, 0, item.rangeStart) \o item.insertText
        \o substring(lineText, item.rangeEnd, Len(lineText))

\* document lines the user may be on
Lines == {"@a.ts#", "see @src/x.ts# now", "@a.ts", "# @b.go#", "@a.ts##"}

TypeLine ==
    /\ epc = "idle"
    /\ \E lineText \in Lines :
         \E character \in 0..Len(lineText) :
            /\ eLine' = lineText
            /\ eChar' = character
    /\ epc' = "typed"
    /\ UNCHANGED <<eSymbol, eItem, eResult, coreVars, probeVars, httpVars, createVars, bodyVars, cwdVars, logVars, cacheVars>>

ProvideSymbol ==
    /\ epc = "typed"
    /\ \E symbol \in Symbols, resolved \in BOOLEAN :
         LET item == provideSymbolCompletion(eLine, eChar, symbol, resolved) IN
         /\ eItem' = item
         /\ eSymbol' = IF item = NoItem THEN NoSymbol ELSE symbol
         /\ epc' = IF item = NoItem THEN "none" ELSE "offered"
    /\ UNCHANGED <<eLine, eChar, eResult, coreVars, probeVars, httpVars, createVars, bodyVars, cwdVars, logVars, cacheVars>>

AcceptItem ==
    /\ epc = "offered"
    /\ eResult' = acceptItem(eLine, eItem)
    /\ epc' = "accepted"
    /\ UNCHANGED <<eLine, eChar, eSymbol, eItem, coreVars, probeVars, httpVars, createVars, bodyVars, cwdVars, logVars, cacheVars>>

EditorNext == TypeLine \/ ProvideSymbol \/ AcceptItem

EditorInit ==
    /\ eLine = ""
    /\ eChar = 0
    /\ epc = "idle"
    /\ eSymbol = NoSymbol
    /\ eItem = NoItem
    /\ eResult = ""

\* ================================================ response body, as text
\* String.prototype.startsWith
startsWith(str, prefix) ==
    Len(str) >= Len(prefix) /\ SubSeq(str, 1, Len(prefix)) = prefix

\* the JSON texts a `data: ` line carries, and what JSON.parse makes of
\* them; on any other text JSON.parse throws
Payloads == {"{\"content\":\"a\"}", "{\"text\":\"b\"}", "{}"}

\* data.content ?? data.text ?? "" of the parsed payload
contentOf(json) ==
    CASE json = "{\"content\":\"a\"}" -> "a"
      [] json = "{\"text\":\"b\"}" -> "b"
      [] OTHER -> ""

\* the response body: one `data: <json>` line per payload
RECURSIVE bodyOf(_)
bodyOf(lines) ==
    IF lines = <<>> THEN ""
    ELSE "data: " \o Head(lines) \o "\n" \o bodyOf(Tail(lines))

\* chunk.split("\n").filter(Boolean): the non-empty pieces between line
\* feeds
RECURSIVE splitLines(_)
splitLines(chunk) ==
    LET feeds == {i \in 1..Len(chunk) : charAt(chunk, i) = "\n"} IN
    IF feeds = {}
    THEN IF chunk = "" THEN <<>> ELSE <<chunk>>
    ELSE LET i == CHOOSE k \in feeds : \A m \in feeds : k <= m
             rest == splitLines(SubSeq(chunk, i + 1, Len(chunk)))
         IN  IF i = 1 THEN rest ELSE <<SubSeq(chunk, 1, i - 1)>> \o rest

\* the `for (const line of lines)` loop on the text of the lines:
\* line.startsWith("data: "), JSON.parse(line.slice(6)), one output event
RECURSIVE processTextLines(_, _)
processTextLines(evs, lines) ==
    IF lines = <<>>
    THEN [events |-> evs, threw |-> FALSE]
    ELSE LET line == Head(lines) IN
         IF startsWith(line, "data: ")
         THEN LET json == SubSeq(line, 7, Len(line)) IN
              IF json \in Payloads
              THEN processTextLines(Append(evs, OutputEvent(contentOf(json))),
                                    Tail(lines))
              ELSE [events |-> evs, threw |-> TRUE]
         ELSE processTextLines(evs, Tail(lines))

\* `await reader.read()` settles with a chunk of the body, or with done
onChunkRead(evs, done, chunk) ==
    IF done
    THEN [events |-> Append(evs, CompleteEvent("success")), pc |-> "done"]
    ELSE LET r == processTextLines(evs, splitLines(chunk)) IN
         IF r.threw
         THEN [events |-> Append(r.events, ErrorEvent("JSON parse failed")),
               pc |-> "done"]
         ELSE [events |-> r.events, pc |-> "readBody"]

\* fetch resolved with a 2xx response whose body is the given lines
BodyArrives ==
    /\ bpc = "idle"
    /\ \E lines \in SeqsUpTo(Payloads, MaxLines) \ {<<>>} :
         /\ bLines' = lines
         /\ bRest' = bodyOf(lines)
    /\ bReads' = 0
    /\ bEvents' = <<RoutingEvent("opencode", "s1")>>
    /\ bpc' = "readBody"
    /\ UNCHANGED <<coreVars, probeVars, httpVars, createVars, editorVars, cwdVars, logVars, cacheVars>>

\* the transport delivers the next bytes of the body, cut anywhere; the
\* last chunk it may deliver takes all that is left
ReadChunk ==
    /\ bpc = "readBody"
    /\ bRest # ""
    /\ \E k \in 1..Len(bRest) :
         /\ bReads + 1 = MaxChunks => k = Len(bRest)
         /\ LET r == onChunkRead(bEvents, FALSE, SubSeq(bRest, 1, k)) IN
            /\ bEvents' = r.events
            /\ bpc' = r.pc
         /\ bRest' = SubSeq(bRest, k + 1, Len(bRest))
    /\ bReads' = bReads + 1
    /\ UNCHANGED <<bLines, coreVars, probeVars, httpVars, createVars, editorVars, cwdVars, logVars, cacheVars>>

\* the body is exhausted: read() settles with done
ReadDone ==
    /\ bpc = "readBody"
    /\ bRest = ""
    /\ LET r == onChunkRead(bEvents, TRUE, "") IN
       /\ bEvents' = r.events
       /\ bpc' = r.pc
    /\ UNCHANGED <<bLines, bRest, bReads, coreVars, probeVars, httpVars, createVars, editorVars, cwdVars, logVars, cacheVars>>

BodyNext == BodyArrives \/ ReadChunk \/ ReadDone

BodyInit ==
    /\ bLines = <<>>
    /\ bRest = ""
    /\ bReads = 0
    /\ bEvents = <<>>
    /\ bpc = "idle"

\* ================================================= overlapping executes
\* execute calls in flight in the one process
Calls == {"c1", "c2", "c3"}

\* the directory the server was started in
StartDir == "/work"
NoDir == "undefined"

\* ClaudeCodeAdapter.execute up to `await super.execute(request)`:
\* `const originalCwd = process.cwd(); process.chdir("/tmp")`
chdirToTmp(dir) == [cwd |-> "/tmp", originalCwd |-> dir]

ExecuteEnters ==
    /\ \E c \in Calls :
         /\ kpc[c] = "idle"
         /\ LET r == chdirToTmp(cwd) IN
            /\ cwd' = r.cwd
            /\ originalCwd' = [originalCwd EXCEPT ![c] = r.originalCwd]
         /\ kpc' = [kpc EXCEPT ![c] = "awaiting"]
    /\ UNCHANGED <<coreVars, probeVars, httpVars, createVars, editorVars, bodyVars, logVars, cacheVars>>

\* super.execute settles, by a result or by an exception, and the finally
\* clause runs `process.chdir(originalCwd)` with the call's own local
restoreCwd(saved) == saved

ExecuteLeaves ==
    /\ \E c \in Calls, threw \in BOOLEAN :
         /\ kpc[c] = "awaiting"
         /\ cwd' = restoreCwd(originalCwd[c])
         /\ kpc' = [kpc EXCEPT ![c] = IF threw THEN "raised" ELSE "returned"]
    /\ UNCHANGED <<originalCwd, coreVars, probeVars, httpVars, createVars, editorVars,
                   bodyVars, logVars, cacheVars>>

CwdNext == ExecuteEnters \/ ExecuteLeaves

CwdInit ==
    /\ cwd = StartDir
    /\ kpc = [c \in Calls |-> "idle"]
    /\ originalCwd = [c \in Calls |-> NoDir]


\* ========================================================== execution log
\* attempts the model lets a run make
MaxAttempts == 2
\* the clock of the log moves in steps of half a second, up to this
MaxLogMs == 1000

LogPrompts == {"p1", "p2"}

\* new Date().toISOString().replace(/[:.]/g, "-").slice(0, -5): the instant
\* cut to whole seconds (the milliseconds and the "Z" are sliced off)
logTimestamp(nowMs) == ToString(nowMs \div 1000)

\* `${logsDir}/${this.name}-${timestamp}.log`
logPath(name, nowMs) == "logs/" \o name \o "-" \o logTimestamp(nowMs) \o ".log"

\* formatLogContent(result, request): what the record holds of the attempt
formatLogContent(result, request) ==
    [prompt |-> request,
     output |-> IF result.output = "" THEN "(no output)" ELSE result.output,
     error |-> result.error]

\* Bun.write(path, content): the file is created or replaced by content
bunWrite(files, path, content) == Put(files, path, <<content>>)

\* saveToLog(result, request): a failing write is swallowed
saveToLog(files, name, result, request, nowMs, writeOk) ==
    IF writeOk
    THEN bunWrite(files, logPath(name, nowMs), formatLogContent(result, request))
    ELSE files

\* an execute call reaches its saveToLog with the result it is to return
SaveToLog ==
    /\ Len(attempts) < MaxAttempts
    /\ \E name \in Tools, request \in LogPrompts, success \in BOOLEAN, writeOk \in BOOLEAN :
         LET result == IF success THEN Result(TRUE, "out-" \o request, NoError, "s1")
                       ELSE Failure("err-" \o request, "s1") IN
         /\ logFiles' = saveToLog(logFiles, name, result, request, logNow, writeOk)
         /\ attempts' = IF writeOk
                        THEN Append(attempts, formatLogContent(result, request))
                        ELSE attempts
    /\ UNCHANGED <<logNow, coreVars, probeVars, httpVars, createVars, editorVars,
                   bodyVars, cwdVars, cacheVars>>

\* half a second passes
LogTick ==
    /\ logNow < MaxLogMs
    /\ logNow' = logNow + 500
    /\ UNCHANGED <<logFiles, attempts, coreVars, probeVars, httpVars, createVars,
                   editorVars, bodyVars, cwdVars, cacheVars>>

LogNext == SaveToLog \/ LogTick

LogInit ==
    /\ logFiles = <<>>
    /\ attempts = <<>>
    /\ logNow = 0

\* ============================================================= FileCache
\* workspaceFolder.uri.fsPath of the folders of a multi-root workspace
Workspaces == {"w1", "w2"}

\* what vscode.workspace.findFiles resolves to: two different listings
FileLists == {"files1", "files2"}

\* Map.get of an absent key, and the undefined get() returns
NoFiles == "undefined"

\* provideCompletionItems calls in flight
Completions == {"c1", "c2"}

NoServed == [workspace |-> "", files |-> NoFiles, fresh |-> FALSE]

\* FileCache.get(workspacePath)
get(workspacePath) ==
    IF cacheValid THEN cache[workspacePath] ELSE NoFiles

\* FileCache.set(workspacePath, files)
set(workspacePath, files) ==
    /\ cache' = [cache EXCEPT ![workspacePath] = files]
    /\ cacheValid' = TRUE
    /\ setSince' = setSince \cup {workspacePath}

\* FileCache.invalidate()
invalidate ==
    /\ cacheValid' = FALSE
    /\ setSince' = {}
    /\ UNCHANGED cache

\* onDidChangeTextDocument fires: the watcher invalidates the cache
DidChangeTextDocument ==
    /\ invalidate
    /\ UNCHANGED <<served, fpc, fWorkspace, coreVars, probeVars, httpVars, createVars, editorVars, bodyVars, cwdVars, logVars>>

\* provideFileCompletion up to `await vscode.workspace.findFiles(...)`, or to
\* its end when the cache serves the list
ProvideFileCompletion ==
    /\ \E c \in Completions, w \in Workspaces :
         /\ fpc[c] \in {"idle", "done"}
         /\ served' = [workspace |-> w, files |-> get(w), fresh |-> w \in setSince]
         /\ fpc' = [fpc EXCEPT ![c] = IF get(w) = NoFiles THEN "finding" ELSE "done"]
         /\ fWorkspace' = [fWorkspace EXCEPT ![c] = w]
    /\ UNCHANGED <<cache, cacheValid, setSince, coreVars, probeVars, httpVars, createVars, editorVars, bodyVars, cwdVars, logVars>>

\* findFiles settles: the list is stored unless the request was cancelled
FindFilesSettled ==
    /\ \E c \in Completions, files \in FileLists, isCancellationRequested \in BOOLEAN :
         /\ fpc[c] = "finding"
         /\ IF isCancellationRequested
            THEN UNCHANGED <<cache, cacheValid, setSince>>
            ELSE set(fWorkspace[c], files)
         /\ fpc' = [fpc EXCEPT ![c] = "done"]
    /\ UNCHANGED <<served, fWorkspace, coreVars, probeVars, httpVars, createVars, editorVars, bodyVars, cwdVars, logVars>>

CacheNext == DidChangeTextDocument \/ ProvideFileCompletion \/ FindFilesSettled

CacheInit ==
    /\ cache = [w \in Workspaces |-> NoFiles]
    /\ cacheValid = FALSE
    /\ setSince = {}
    /\ served = NoServed
    /\ fpc = [c \in Completions |-> "idle"]
    /\ fWorkspace = [c \in Completions |-> "w1"]

\* ============================================================= isAvailable
\* seconds the model lets a probe run
MaxWait == 6

\* setTimeout(() => proc.kill(), 5000), in seconds
ClaudeProbeTimeout == 5
\* setTimeout(() => controller.abort(), 3000), in seconds
OpenCodeProbeTimeout == 3

\* the ceiling isAvailable puts on its probe: ClaudeCodeAdapter kills the
\* `--version` process, OpenCodeAdapter aborts the health request, and
\* BaseAdapter.isAvailable awaits `which` with no timer at all
probeTimeout(a) ==
    CASE a.name = "claude-code" -> ClaudeProbeTimeout
      [] a.name = "opencode" /\ ~Falsy(a.endpoint) -> OpenCodeProbeTimeout
      [] OTHER -> Undefined

\* BaseAdapter.isAvailable up to `await proc.exited`
baseIsAvailableStart(a, spawnOk) ==
    IF Falsy(getCommand(a)) \/ ~spawnOk
    THEN [pc |-> "returned", ret |-> FALSE]
    ELSE [pc |-> "probe", ret |-> FALSE]

\* isAvailable() as dispatched by the adapter's class, up to its await
isAvailableStart(a, spawnOk) ==
    CASE a.name \in {"cursor", "aider"} -> [pc |-> "returned", ret |-> FALSE]
      [] a.name = "claude-code" ->
             IF spawnOk THEN [pc |-> "probe", ret |-> FALSE]
                        ELSE [pc |-> "returned", ret |-> FALSE]
      [] a.name = "opencode" /\ ~Falsy(a.endpoint) -> [pc |-> "probe", ret |-> FALSE]
      [] OTHER -> baseIsAvailableStart(a, spawnOk)

IsAvailable ==
    /\ ppc = "idle"
    /\ \E a \in Adapters, spawnOk \in BOOLEAN, stalled \in BOOLEAN :
         LET r == isAvailableStart(a, spawnOk) IN
         /\ pAdapter' = a
         /\ ppc' = r.pc
         /\ pRet' = r.ret
         /\ pStalled' = stalled
         /\ pElapsed' = 0
    /\ UNCHANGED <<coreVars, httpVars, moreVars>>

\* `await proc.exited` / `await fetch(...)` settles on its own: exit code 0
\* or a 2xx response is "ok", anything else (a rejection included) is not
onProbeSettled(outcome) == [pc |-> "returned", ret |-> (outcome = "ok")]

ProbeSettled ==
    /\ ppc = "probe"
    /\ ~pStalled
    /\ \E outcome \in {"ok", "fail"} :
         LET r == onProbeSettled(outcome) IN
         /\ ppc' = r.pc
         /\ pRet' = r.ret
    /\ UNCHANGED <<pAdapter, pStalled, pElapsed, coreVars, httpVars, moreVars>>

\* the timer fires: proc.kill() ends the process (exitCode is not 0), or
\* controller.abort() rejects the fetch and the catch clause returns false
onProbeTimeout == [pc |-> "returned", ret |-> FALSE]

ProbeTimedOut ==
    /\ ppc = "probe"
    /\ probeTimeout(pAdapter) # Undefined
    /\ pElapsed >= probeTimeout(pAdapter)
    /\ ppc' = onProbeTimeout.pc
    /\ pRet' = onProbeTimeout.ret
    /\ UNCHANGED <<pAdapter, pStalled, pElapsed, coreVars, httpVars, moreVars>>

\* a second passes while the probe is pending
ProbeTick ==
    /\ ppc = "probe"
    /\ pElapsed < MaxWait
    /\ pElapsed' = pElapsed + 1
    /\ UNCHANGED <<pAdapter, ppc, pRet, pStalled, coreVars, httpVars, moreVars>>

ProbeNext == IsAvailable \/ ProbeSettled \/ ProbeTimedOut \/ ProbeTick

ProbeInit ==
    /\ pAdapter = NoAdapter
    /\ ppc = "idle"
    /\ pRet = FALSE
    /\ pStalled = FALSE
    /\ pElapsed = 0

HttpInit ==
    /\ xResponse = NoResponse
    /\ sResponse = NoResponse

\* ================================================================== whole
StreamInit ==
    /\ sAdapter = NoAdapter
    /\ sRequested = NoSessionId
    /\ sSessionId = NoSessionId
    /\ spc = "idle"
    /\ events = <<>>
    /\ cancelled = FALSE
    /\ nChunks = 0

ExecInit ==
    /\ xAdapter = NoAdapter
    /\ xRequested = NoSessionId
    /\ xVariant = "pipe"
    /\ xpc = "idle"
    /\ xResult = NoResult
    /\ hung = FALSE
    /\ xProc = NoProc

\* no request is being handled
ApiInit ==
    /\ hpc = [h \in Handlers |-> "idle"]
    /\ hsid = [h \in Handlers |-> NoSessionId]
    /\ hOutcome = [h \in Handlers |-> "none"]

\* no call has been made
AnalyzerInit ==
    /\ prompt = Null
    /\ analysis = NoAnalysis
    /\ selArgs = NoArgs
    /\ selection = NoSelection

Init ==
    /\ SessionInit /\ StreamInit /\ ExecInit /\ ApiInit /\ AnalyzerInit
    /\ ProbeInit /\ HttpInit /\ CreateTextInit
    /\ EditorInit /\ BodyInit /\ CwdInit /\ LogInit /\ CacheInit

Next ==
    \/ SessionNext \/ SweepNext \/ StreamNext \/ ExecNext \/ ApiNext
    \/ AnalyzerNext \/ ProbeNext \/ CreateTextNext \/ EditorNext
    \/ BodyNext \/ CwdNext \/ LogNext \/ CacheNext

Spec == Init /\ [][Next]_vars

\* the HTTP-backed adapter: an execute() call and a stream() call, each
\* followed through its fetch
HttpNext ==
    \/ Execute \/ ExecuteFetchSettled \/ JsonParsed \/ LogWritten
    \/ Stream \/ StreamFetchSettled \/ ReadBody

\* one execute call and one stream call of an adapter, in any interleaving
AdapterNext == ExecNext \/ StreamNext

AdapterSpec == Init /\ [][AdapterNext]_vars

HttpSpec == Init /\ [][HttpNext]_vars

\* create calls, with the ids in their textual form
CreateTextSpec == Init /\ [][CreateTextNext]_vars

\* one symbol completion in the editor: offered, then accepted
EditorSpec == Init /\ [][EditorNext]_vars

\* streamViaApi reading one response body, cut into chunks by the transport
BodySpec == Init /\ [][BodyNext]_vars

\* ClaudeCodeAdapter.execute calls that overlap at their await
CwdSpec == Init /\ [][CwdNext]_vars

\* execute attempts writing the execution log
LogSpec == Init /\ [][LogNext]_vars

\* file completions of the editor extension and document changes
CacheSpec == Init /\ [][CacheNext]_vars

\* one isAvailable() call
ProbeSpec == Init /\ [][ProbeNext]_vars

\* the same, where the event loop runs whatever is ready: a timer that is
\* due fires and a probe that completes is resumed
ProbeFairSpec == ProbeSpec /\ WF_vars(ProbeNext)

\* the registry alone
SessionSpec == Init /\ [][SessionNext]_vars

\* the registry's calls that bear on cleanup, with the latest cleanup call
\* on record
SweepSpec == Init /\ [][SweepNext]_vars

\* concurrent requests to POST /api/v1/execute, and a cleanup timer
ApiSpec == Init /\ [][ApiNext]_vars

\* one analyzeRequest call, or one selectTool call
AnalyzerSpec == Init /\ [][AnalyzerNext]_vars

\* one stream() call, with cancel
StreamSpec == Init /\ [][StreamNext]_vars

\* one execute() call
ExecSpec == Init /\ [][ExecNext]_vars

\* one execute() call, where every continuation that is ready is run: the
\* event loop runs each settled await; a backend that never exits settles
\* nothing
ExecFairSpec == ExecSpec /\ WF_vars(ExecNext)

\* ================================================================= claims
IsTerminal(session) == session.status \in TerminalStatus

\* (role, content) of every message, in list order
MessagePairs(messages) ==
    [i \in 1..Len(messages) |-> <<messages[i].role, messages[i].content>>]

\* C1: for BaseAdapter.stream and OpenCodeAdapter.streamViaApi the events
\* delivered so far are one routing event followed by output events, then,
\* exactly when the call has ended, one terminal event (complete or error)
\* in last place.
C1_StreamOrder ==
    (spc # "idle" /\ sAdapter.name \in {"claude-code", "opencode"}) =>
        /\ Len(events) >= 1
        /\ events[1].type = "routing"
        /\ \A i \in 2..Len(events) : events[i].type # "routing"
        /\ \A i \in 2..(Len(events) - 1) : events[i].type = "output"
        /\ (spc = "done") <=> IsTerminalEvent(Last(events))

\* an HTTP stream that delivered output and then failed to decode a line
C1_Witness ==
    /\ spc = "done"
    /\ ~Falsy(sAdapter.endpoint)
    /\ Len(events) = 3
    /\ events[2].type = "output"
    /\ events[3] = ErrorEvent("JSON parse failed")

\* C2: when stream has ended on an adapter the factory returns, the first
\* event delivered is a routing event and the last is complete or error.
C2_FirstRoutingLastTerminal ==
    (spc = "done" /\ sAdapter \in FactoryAdapters) =>
        /\ events[1].type = "routing"
        /\ IsTerminalEvent(Last(events))

\* C3: execute never raises: no call ends with an exception reaching the
\* caller.
C3_ExecuteNeverRaises == xpc # "raised"

\* C4: execute always terminates: when the backend process never exits (or
\* never closes its output), execute still returns, with success = false.
C4_ExecuteTerminates ==
    (hung /\ xpc \in {"stdout", "exit"}) ~> (xpc = "returned" /\ ~xResult.success)

\* C5: once cancel has returned for the session of a running stream, the
\* only event still delivered to the sink is the terminal error event with
\* reason "cancelled".
C5_NoEventAfterCancel ==
    [][cancelled =>
          \A i \in (Len(events) + 1)..Len(events') :
              events'[i] = ErrorEvent("cancelled")]_vars

\* C6: a terminal session is final: a complete() on a session that is
\* already completed or failed leaves its status and its end time as they
\* were.
C6_TerminalIsFinal ==
    [][\A id \in DOMAIN sessions :
          (/\ IsTerminal(sessions[id])
           /\ lastCall'.op = "complete"
           /\ lastCall'.id = id
           /\ id \in DOMAIN sessions')
          => /\ sessions'[id].status = sessions[id].status
             /\ sessions'[id].endTime = sessions[id].endTime]_vars

\* C7: addMessage and complete with an id that is not in the registry raise
\* (Not-Found) and leave the registry as it was.
C7_UnknownIdRaises ==
    [][(/\ lastCall'.op \in {"addMessage", "complete"}
        /\ lastCall'.id \notin DOMAIN sessions)
       => /\ lastCall'.threw
          /\ sessions' = sessions
          /\ order' = order]_vars

C7_Witness ==
    /\ lastCall.op \in {"addMessage", "complete"}
    /\ lastCall.threw
    /\ lastCall.id \notin DOMAIN sessions
    /\ \E id \in DOMAIN sessions : sessions[id].messages # <<>>

\* C8: every stored session's message list is the sequence of (role,
\* content) pairs of the addMessage calls made on it, in call order.
C8_MessagesInCallOrder ==
    \A id \in DOMAIN sessions :
        /\ id \in DOMAIN callLog
        /\ MessagePairs(sessions[id].messages) = callLog[id]

C8_Witness ==
    \E id \in DOMAIN sessions :
        /\ Len(sessions[id].messages) = 2
        /\ sessions[id].messages[1].role # sessions[id].messages[2].role
        /\ \E other \in DOMAIN sessions : other # id

\* C9: the session stored under an id never goes from a terminal status
\* back to active.
C9_StatusNeverReverts ==
    [][\A id \in DOMAIN sessions :
          (IsTerminal(sessions[id]) /\ id \in DOMAIN sessions')
          => sessions'[id].status # "active"]_vars

\* C10: cleanup(maxAgeMs) removes exactly the terminal sessions whose end
\* time is strictly before now - maxAgeMs, returns how many it removed, and
\* leaves every other session as it was.
C10_CleanupExact ==
    [][lastCall'.op = "cleanup" =>
          LET cutoff == now - lastCall'.arg
              gone == {id \in DOMAIN sessions :
                          /\ IsTerminal(sessions[id])
                          /\ sessions[id].endTime < cutoff}
          IN /\ DOMAIN sessions' = (DOMAIN sessions) \ gone
             /\ \A id \in DOMAIN sessions' : sessions'[id] = sessions[id]
             /\ lastCall'.ret = Cardinality(gone)]_vars

\* a sweep that removed a session and kept an active one and a terminal one
\* that ended exactly at the cutoff
C10_Witness ==
    /\ lastCall.op = "cleanup"
    /\ lastCall.ret = 1
    /\ \E id \in DOMAIN sessions :
           /\ IsTerminal(sessions[id])
           /\ sessions[id].endTime = now - lastCall.arg

\* C11: cleanup is idempotent: when cleanup(T) is called twice in succession
\* and no session became terminal between the two calls, the second call
\* removes nothing and returns 0.
C11_CleanupIdempotent ==
    [][(/\ sweep # NoSweep
        /\ lastCall'.op = "cleanup"
        /\ lastCall'.arg = sweep.arg)
       => /\ lastCall'.ret = 0
          /\ sessions' = sessions]_vars

\* C11 as amended: when cleanup(T) is called twice in succession at the same
\* clock reading and no session became terminal between the two calls, the
\* second call removes nothing and returns 0.
C11_CleanupIdempotentAtOneInstant ==
    [][(/\ sweep # NoSweep
        /\ sweep.fresh
        /\ lastCall'.op = "cleanup"
        /\ lastCall'.arg = sweep.arg)
       => /\ lastCall'.ret = 0
          /\ sessions' = sessions]_vars

\* the second of two cleanup(T) calls at one instant, with a terminal
\* session and an active one in the registry
C11_Witness ==
    /\ sweep.calls = 2
    /\ lastCall.op = "cleanup"
    /\ \E id \in DOMAIN sessions : IsTerminal(sessions[id])
    /\ \E id \in DOMAIN sessions : sessions[id].status = "active"

\* the session that handler h created
Own(h) == sessions[hsid[h]]

\* C12: under any interleaving of concurrent request handlers (and a
\* concurrent cleanup), nothing a handler did to the registry is lost: the
\* handlers in flight own distinct stored sessions, the session of a handler
\* still has exactly the messages that handler appended, in order, and has
\* the status the handler last gave it; no registry call of a handler finds
\* its session missing.
C12_NothingLost ==
    \A h \in Handlers :
        LET inFlight == {"created", "executing", "streaming", "answered"}
            others == {g \in Handlers \ {h} : hsid[g] = hsid[h]}
        IN /\ hpc[h] \in inFlight =>
                /\ hsid[h] \in DOMAIN sessions
                /\ \A g \in others : hpc[g] \notin inFlight
                /\ Own(h).status = "active"
                /\ MessagePairs(Own(h).messages) =
                       CASE hpc[h] = "created" -> <<>>
                         [] hpc[h] = "answered" -> <<<<"user", "p">>, <<"assistant", "p">>>>
                         [] OTHER -> <<<<"user", "p">>>>
           /\ (/\ hpc[h] \in {"completed", "failed"}
               /\ hsid[h] \in DOMAIN sessions
               /\ others = {}) =>
                /\ Own(h).status = hpc[h]
                /\ Len(Own(h).messages) \in {1, 2}
                /\ Own(h).messages[1].role = "user"
           /\ hpc[h] # "threw"

\* two requests handled together, one failed and one completed, both
\* sessions stored
C12_Witness ==
    /\ hpc["h1"] = "failed"
    /\ hpc["h2"] = "completed"
    /\ hsid["h1"] # hsid["h2"]
    /\ {hsid["h1"], hsid["h2"]} \subseteq DOMAIN sessions
    /\ Len(sessions[hsid["h1"]].messages) = 1
    /\ Len(sessions[hsid["h2"]].messages) = 1

\* sessions of the registry that satisfy P
Count(P(_)) == Cardinality({id \in DOMAIN sessions : P(sessions[id])})

\* C13: what getStats returns reflects the registry at the call: total is
\* the number of sessions, total = active + completed + failed, each of the
\* three counts is the number of sessions with that status, byTool[t] is the
\* number of sessions owned by tool t, and the per-tool counts sum to total.
C13_StatsReflectRegistry ==
    lastCall.op = "getStats" =>
        LET stats == getStats
            owners == {sessions[id].tool : id \in DOMAIN sessions}
        IN /\ lastCall.ret = stats.total
           /\ stats.total = Cardinality(DOMAIN sessions)
           /\ stats.total = stats.active + stats.completed + stats.failed
           /\ stats.active = Count(LAMBDA session : session.status = "active")
           /\ stats.completed = Count(LAMBDA session : session.status = "completed")
           /\ stats.failed = Count(LAMBDA session : session.status = "failed")
           /\ DOMAIN stats.byTool = owners
           /\ \A t \in owners :
                  stats.byTool[t] = Count(LAMBDA session : session.tool = t)
           /\ SumOver(stats.byTool, owners) = stats.total

\* getStats on a registry of two sessions of one tool, one active and one
\* failed
C13_Witness ==
    /\ lastCall.op = "getStats"
    /\ lastCall.ret = 2
    /\ getStats.byTool = [t \in {"opencode"} |-> 2]
    /\ getStats.active = 1
    /\ getStats.failed = 1

\* ------------------------------------------------------ analyzer's claims
\* an analyzeRequest call has returned
Analyzed == prompt # Null /\ analysis # NoAnalysis

\* the input as the keyword tests see it
Normalized == trim(toLowerCase(prompt))

\* the keywords of a list that occur in the input
Occurring(input, keywords) ==
    {keywords[i] : i \in {j \in 1..Len(keywords) : includes(input, keywords[j])}}

\* how many keywords of a task type occur in the input
Matches(input, type) == Cardinality(Occurring(input, TASK_KEYWORDS[type]))

\* the base value of a task type
Base ==
    [architecture |-> 8, refactoring |-> 6, debugging |-> 5, review |-> 5,
     code_generation |-> 4, documentation |-> 3, quick_fix |-> 2]

\* base value and keyword adjustments, before the file-marker bonus and
\* the clamp
Adjusted(input, type) ==
    Base[type] + Cardinality(Occurring(input, COMPLEXITY_KEYWORDS.high))
               - Cardinality(Occurring(input, COMPLEXITY_KEYWORDS.low))

\* the distinct elements of a list
Distinct(list) == {list[i] : i \in 1..Len(list)}

\* C14: analyzeRequest returns a complexity in 1..10 and a confidence in
\* 0..1 (0..100 hundredths), whatever the number of high-complexity
\* keywords, low-complexity keywords and file markers in the prompt; so does
\* selectTool for its confidence.
C14_RangesHold ==
    /\ Analyzed => /\ analysis.complexity \in 1..10
                   /\ analysis.confidence \in 0..100
    /\ selection # NoSelection => selection.confidence \in 0..100

\* a prompt whose base value and adjustments exceed 10
C14_Witness ==
    /\ Analyzed
    /\ Adjusted(Normalized, analysis.taskType) > 10
    /\ Len(analysis.affectedFiles) = 0

\* the decision list of C15 on one (task type, complexity, tool, confidence)
Decided(taskType, complexity, tool, confidence) ==
    LET first == complexity > 6 \/ taskType = "architecture"
        second == ~first /\ taskType = "code_generation" /\ complexity < 6
        third == ~first /\ ~second /\ taskType \in {"debugging", "refactoring"}
        fourth == ~first /\ ~second /\ ~third /\ taskType = "review"
    IN /\ first => (tool = "claude-code" /\ confidence = 90)
       /\ second => (tool = "opencode" /\ confidence = 85)
       /\ third => (tool = "claude-code" /\ confidence = 80)
       /\ fourth => (tool = "claude-code" /\ confidence = 90)
       /\ (~first /\ ~second /\ ~third /\ ~fourth) =>
              (tool = "claude-code" /\ confidence = 50)
       /\ tool = "opencode" => (taskType = "code_generation" /\ complexity < 6)
       /\ (taskType = "code_generation" /\ complexity = 6) => confidence = 50

\* C15: tool selection is a first-match-wins decision list over (task type,
\* complexity): (complexity > 6 or architecture) gives claude-code 0.9; else
\* (code_generation and complexity < 6) gives opencode 0.85; else (debugging
\* or refactoring) gives claude-code 0.8; else (review) gives claude-code
\* 0.9; otherwise claude-code 0.5.  So opencode is suggested only for
\* code_generation below 6, and code_generation at exactly 6 gets 0.5.
C15_DecisionList ==
    /\ selection # NoSelection =>
           Decided(selArgs.taskType, selArgs.complexity,
                   selection.tool, selection.confidence)
    /\ Analyzed =>
           Decided(analysis.taskType, analysis.complexity,
                   analysis.suggestedTool, analysis.confidence)

\* selectTool called on code_generation with complexity exactly 6
C15_Witness ==
    /\ selArgs = [taskType |-> "code_generation", complexity |-> 6]
    /\ selection.tool = "claude-code"
    /\ selection.confidence = 50

\* C16: when several task types tie for the maximum keyword-match count, the
\* detected type is the first of them in the canonical order, in which
\* architecture comes before all other types: a prompt whose architecture
\* match count is positive and is not exceeded by any other type's is
\* classified as architecture.
C16_ArchitectureWinsTies ==
    Analyzed =>
        ((/\ Matches(Normalized, "architecture") > 0
          /\ \A type \in DOMAIN TASK_KEYWORDS :
                 Matches(Normalized, type) <= Matches(Normalized, "architecture"))
         => analysis.taskType = "architecture")

\* C17: complexity is the clamp to [1,10], applied once to the final sum, of
\* the base value of the detected task type, plus 1 for each distinct
\* high-complexity keyword occurring in the prompt, minus 1 for each
\* low-complexity keyword occurring in it, plus the file-marker bonus (the
\* bonus as calculateComplexity takes it from its @-matches; what the bonus
\* counts is C18's subject).
C17_ComplexityFormula ==
    Analyzed =>
        LET sum == Adjusted(Normalized, analysis.taskType)
                       + fileBonus(match(Normalized, 1))
        IN analysis.complexity =
               IF sum < 1 THEN 1 ELSE IF sum > 10 THEN 10 ELSE sum

\* a prompt in which several low-complexity keywords occur and whose sum is
\* below 1
C17_Witness ==
    /\ Analyzed
    /\ Cardinality(Occurring(Normalized, COMPLEXITY_KEYWORDS.low)) > 2
    /\ Adjusted(Normalized, analysis.taskType) < 1
    /\ analysis.complexity = 1

\* C18: with the task type and the complexity keywords held constant and
\* the sum away from the clamp bounds, the complexity exceeds the base value
\* with its keyword adjustments by +1 for 2-3 distinct file markers, by +2
\* for more than 3 distinct markers and by 0 otherwise: repeating the same
\* @marker does not raise the bonus.
C18_BonusByDistinctMarkers ==
    Analyzed =>
        LET plain == Adjusted(Normalized, analysis.taskType)
            markers == Cardinality(Distinct(analysis.affectedFiles))
        IN (plain >= 1 /\ plain + 2 <= 10) =>
               analysis.complexity - plain =
                   IF markers > 3 THEN 2 ELSE IF markers >= 2 THEN 1 ELSE 0

\* C19: analyzeRequest("quick fix typo in readme") returns task type
\* quick_fix, complexity at most 2 and a tool chosen by the generation branch
\* or the fallback branch; and a prompt whose keywords tie between quick_fix
\* and other types at one match each is classified quick_fix.
C19_QuickFixScenario ==
    Analyzed =>
        /\ prompt = "quick fix typo in readme" =>
               /\ analysis.taskType = "quick_fix"
               /\ analysis.complexity <= 2
               /\ analysis.confidence \in {85, 50}
        /\ (/\ Matches(Normalized, "quick_fix") = 1
            /\ \A type \in DOMAIN TASK_KEYWORDS : Matches(Normalized, type) <= 1)
           => analysis.taskType = "quick_fix"

\* C20: analyzeRequest("refactor the database layer") returns task type
\* refactoring, complexity 6, claude-code and confidence 0.8; and so does
\* every prompt that matches only refactoring keywords, no complexity
\* keyword and no file marker.
C20_RefactoringScenario ==
    Analyzed =>
        LET onlyRefactoring ==
                /\ Matches(Normalized, "refactoring") > 0
                /\ \A type \in DOMAIN TASK_KEYWORDS \ {"refactoring"} :
                       Matches(Normalized, type) = 0
                /\ Occurring(Normalized, COMPLEXITY_KEYWORDS.high) = {}
                /\ Occurring(Normalized, COMPLEXITY_KEYWORDS.low) = {}
                /\ ~includes(prompt, "@")
        IN (prompt = "refactor the database layer" \/ onlyRefactoring) =>
               /\ analysis.taskType = "refactoring"
               /\ analysis.complexity = 6
               /\ analysis.suggestedTool = "claude-code"
               /\ analysis.confidence = 80

C20_Witness ==
    /\ prompt = "refactor the database layer"
    /\ analysis.taskType = "refactoring"
    /\ analysis.affectedFiles = <<>>

\* C21: analyzeRequest always returns a value, and for an empty prompt or a
\* prompt that matches no keyword of any task type it returns the fallback
\* decision, claude-code with confidence 0.5, the smallest confidence the
\* decision list produces.
C21_UnknownInputFallsBack ==
    Analyzed =>
        ((\A type \in DOMAIN TASK_KEYWORDS : Matches(Normalized, type) = 0)
         => /\ analysis.suggestedTool = "claude-code"
            /\ analysis.confidence = 50)

\* C22: for every adapter that has neither a runnable command nor an
\* endpoint configured (the cursor adapter included), execute spawns no
\* process and returns success = false, empty output and the error text
\* "Tool <name> is not configured".
C22_NotConfigured ==
    (/\ xpc # "idle"
     /\ Falsy(getCommand(xAdapter))
     /\ Falsy(xAdapter.endpoint))
    => /\ xpc \in {"log", "returned"}
       /\ ~xResult.success
       /\ xResult.output = ""
       /\ xResult.error = "Tool " \o xAdapter.name \o " is not configured"

\* C23: when a subprocess-backed execute returns after its process ran to
\* exit, success is true exactly when the exit code is 0, output is the text
\* the process wrote to standard output (not a file path), and a non-zero
\* exit code comes with an error message, the captured standard error.
C23_ResultMirrorsProcess ==
    (xpc = "returned" /\ xProc.exitCode # Undefined)
    => /\ xResult.success <=> (xProc.exitCode = 0)
       /\ xResult.output = xProc.stdout
       /\ xProc.exitCode # 0 => /\ xResult.error # NoError
                                /\ xResult.error = xProc.stderr

\* C24: isAvailable never blocks indefinitely: on every adapter, even when
\* the probe never completes on its own, a pending isAvailable call
\* eventually returns.
C24_IsAvailableReturns == (ppc = "probe") ~> (ppc = "returned")

\* C25: for the HTTP-backed adapter every non-2xx response is a failure:
\* executeViaApi returns success = false with an error that contains the
\* status text, and streamViaApi emits the routing event followed by a single
\* error event carrying the status text, with no output and no complete
\* event.
C25_Non2xxFails ==
    /\ (xpc = "returned" /\ xResponse # NoResponse /\ ~isOk(xResponse))
       => /\ ~xResult.success
          /\ includes(xResult.error, xResponse.statusText)
    /\ (sResponse # NoResponse /\ ~isOk(sResponse))
       => /\ spc = "done"
          /\ Len(events) = 2
          /\ events[1] = RoutingEvent(sAdapter.name, sSessionId)
          /\ events[2].type = "error"
          /\ includes(events[2].data.error, sResponse.statusText)

C25_Witness ==
    /\ xpc = "returned" /\ xResponse.status = 404
    /\ spc = "done" /\ sResponse.status = 500

\* C26: a failure while writing the execution log or the output capture
\* file never affects what execute returns: wherever execute awaits such a
\* write, the call goes on to the same result, and raises nothing, whether
\* the write fails or succeeds.
C26_WriteFailureIsInvisible ==
    /\ xpc = "log" => onLogWritten(xResult, FALSE) = onLogWritten(xResult, TRUE)
    /\ xpc = "header"
       => \A spawnOk \in BOOLEAN, footerSpawnOk \in BOOLEAN :
              onHeaderWritten(xResult, FALSE, spawnOk, footerSpawnOk)
                  = onHeaderWritten(xResult, TRUE, spawnOk, footerSpawnOk)

\* C27: create(tool, id?) stores and returns a session with status active,
\* no messages, no end time and the given tool; a supplied id is the key it is
\* stored under, and a generated id begins with the owning tool's name.
C27_CreateBuildsSession ==
    cRet # NoSession
    => /\ cRet.status = "active"
       /\ cRet.messages = <<>>
       /\ cRet.endTime = Undefined
       /\ cRet.tool = cArgs.tool
       /\ cRet.id \in DOMAIN registry /\ registry[cRet.id] = cRet
       /\ cArgs.id # NoId => cRet.id = cArgs.id
       /\ cArgs.id = NoId => startsWith(cRet.id, cArgs.tool)

\* C28: accepting a symbol completion offered after "#" was typed directly
\* behind a file reference turns "@<path>#" into
\* "@<path>:<startLine>-<endLine> <SymbolName>", lines counted from 1, so no
\* "#" is left between the path and the ":<start>-<end>" suffix.
C28_HashIsReplaced ==
    epc = "accepted"
    => LET path == matchFileRef(substring(eLine, 0, eChar)) IN
       includes(eResult,
                "@" \o path \o ":" \o ToString(eSymbol.startLine + 1) \o "-"
                    \o ToString(eSymbol.endLine + 1) \o " " \o eSymbol.name)

\* C29: HTTP streaming does not depend on how the transport cuts the body
\* into chunks: for a body of `data: <json>` lines, every partition into
\* read chunks, a cut in the middle of a line included, yields one output
\* event per data line, carrying the line's content (or fallback text)
\* field, followed by complete.
C29_ChunkingIsInvisible ==
    bpc = "done"
    => bEvents = <<RoutingEvent("opencode", "s1")>>
                 \o [i \in 1..Len(bLines) |-> OutputEvent(contentOf(bLines[i]))]
                 \o <<CompleteEvent("success")>>

\* C30: concurrent executions do not interfere through the process working
\* directory: once every ClaudeCodeAdapter.execute call that was started has
\* ended, the working directory is the one before the first call started.
C30_CwdRestored ==
    (\A c \in Calls : kpc[c] # "awaiting") => cwd = StartDir

\* C31: every execution attempt keeps its own log record: also when two
\* attempts of one tool fall into the same second, the prompt, output and
\* error of each attempt are still in the persistent log afterwards.
C31_EveryAttemptLogged ==
    \A i \in 1..Len(attempts) :
        \E path \in DOMAIN logFiles :
            \E j \in 1..Len(logFiles[path]) : logFiles[path][j] = attempts[i]

\* C32: create never destroys an existing session: a create call with an id
\* that is already in the registry leaves the session stored under that id,
\* its tool, messages, status and end time, as it was.
C32_CreateKeepsExisting ==
    [][\A id \in DOMAIN sessions :
          (lastCall'.op = "create" /\ lastCall'.id = id)
          => /\ id \in DOMAIN sessions'
             /\ sessions'[id] = sessions[id]]_vars

\* C33: the terminal status the orchestrator records matches the adapter's
\* outcome on both paths: a request whose adapter call failed (success =
\* false, an exception, a stream ending in an error event or in complete with
\* status failed) leaves its session failed, and a session is completed only
\* when the adapter succeeded.
C33_StatusMatchesOutcome ==
    \A h \in Handlers :
        (hpc[h] \in {"completed", "failed"} /\ hsid[h] \in DOMAIN sessions)
        => /\ hOutcome[h] \in {"failure", "threw"} => Own(h).status = "failed"
           /\ Own(h).status = "completed" => hOutcome[h] = "success"

\* C34: the orchestrator probes before it creates: a request that is
\* rejected, for an unknown tool or an adapter that is not available, leaves
\* the registry as it was, has no session, and never goes on to the adapter
\* call; and no adapter call is made before the session exists.
C34_RejectedBeforeCreate ==
    [][\A h \in Handlers :
          /\ (hpc'[h] = "rejected" /\ hpc[h] # "rejected")
             => /\ sessions' = sessions
                /\ order' = order
                /\ hsid'[h] = NoSessionId
          /\ hpc[h] = "rejected" => hpc'[h] = "rejected"
          /\ hpc'[h] \in {"executing", "streaming"} => hsid'[h] \in DOMAIN sessions']_vars

C34_Witness ==
    /\ hpc["h1"] = "rejected"
    /\ hpc["h2"] = "executing"
    /\ getStats.total = 1

\* C35: no session is left active after its request has finished: once the
\* handler of a request is through, after the adapter call returned or
\* raised, the session it created is completed or failed.
C35_NoSessionLeftActive ==
    \A h \in Handlers :
        (/\ hpc[h] \in {"completed", "failed", "aborted", "threw"}
         /\ hsid[h] \in DOMAIN sessions)
        => IsTerminal(Own(h))

\* the routing message the streaming branch writes itself, before it calls
\* adapter.stream
handlerRouting(toolName, sessionId) ==
    [type |-> "routing", tool |-> toolName, sessionId |-> sessionId]

\* what the client of the streaming endpoint has received: the handler's
\* own message, then every adapter event, forwarded by the onEvent callback
clientMessages(toolName, sessionId, evs) ==
    <<handlerRouting(toolName, sessionId)>> \o evs

\* C36: a client of the streaming execute endpoint receives exactly one
\* routing event per request, before any output event, and nothing after the
\* terminal event: the handler's routing message and the adapter's routing
\* event do not both reach it.
C36_ClientSeesOneRouting ==
    spc # "idle"
    => LET msgs == clientMessages(sAdapter.name, sSessionId, events) IN
       /\ Cardinality({i \in 1..Len(msgs) : msgs[i].type = "routing"}) = 1
       /\ \A i \in 1..Len(msgs) : \A j \in 1..Len(msgs) :
              /\ (msgs[i].type = "routing" /\ msgs[j].type = "output") => i < j
              /\ (IsTerminalEvent(msgs[i]) /\ i # j) => j < i

\* C37: a session of the registry has an end time exactly when its status is
\* completed or failed, in every state; addMessage and cleanup change the
\* status and the end time of no session they leave in the registry.
C37_EndTimeIffTerminal ==
    [][ /\ \A id \in DOMAIN sessions' :
             (sessions'[id].endTime # Undefined) <=> IsTerminal(sessions'[id])
        /\ lastCall'.op \in {"addMessage", "cleanup"} =>
             \A id \in DOMAIN sessions \cap DOMAIN sessions' :
                 /\ sessions'[id].status = sessions[id].status
                 /\ sessions'[id].endTime = sessions[id].endTime ]_vars

\* an addMessage or cleanup call returned with one session ended and one active
C37_Witness ==
    /\ lastCall.op \in {"addMessage", "cleanup"}
    /\ ~lastCall.threw
    /\ \E id \in DOMAIN sessions :
         IsTerminal(sessions[id]) /\ sessions[id].endTime # Undefined
    /\ \E id \in DOMAIN sessions :
         sessions[id].status = "active" /\ sessions[id].endTime = Undefined

\* C38: a session id supplied in request.options.sessionId is the sessionId of
\* the ToolResult execute returns, on every path and for every adapter, and
\* the sessionId of every routing event stream emits; the id is a generated
\* one only when the request carried none.
C38_SessionIdKept ==
    /\ xpc = "returned" =>
         /\ xRequested # NoSessionId => xResult.sessionId = xRequested
         /\ xResult.sessionId = generateSessionId(xAdapter)
                => xRequested = NoSessionId
    /\ \A i \in DOMAIN events :
         events[i].type = "routing" =>
             /\ sRequested # NoSessionId => events[i].data.sessionId = sRequested
             /\ events[i].data.sessionId = generateSessionId(sAdapter)
                    => sRequested = NoSessionId

\* an execute that ran its backend returned a result for a request with a
\* session id, and a stream called with a session id emitted its routing event
C38_Witness ==
    /\ xpc = "returned"
    /\ xRequested # NoSessionId
    /\ xResult.success
    /\ sRequested # NoSessionId
    /\ \E i \in DOMAIN events : events[i].type = "routing"

\* C39: get(w) returns a file list only when set(w, ...) was called for that
\* same workspace since the latest invalidate(); a set for another workspace
\* does not make the entry of w visible again.
C39_NoListBeforeInvalidation ==
    served.files # NoFiles => served.fresh

====
